---- MODULE Spec2Model ----
(***************************************************************************)
(* Model of the xrpl-guardrails preflight engine: the preflight script     *)
(* (scripts/preflight.ts), the SDK gate and guarded client                 *)
(* (packages/sdk/index.js).                                                *)
(*                                                                         *)
(* JavaScript values are represented as follows.                           *)
(*   - an optional string (string | null | undefined) is a sequence of     *)
(*     length at most one: <<>> is null/undefined, <<s>> is the string s;  *)
(*   - a JSON object is a record holding exactly the fields it has, so     *)
(*     that a missing field is a field outside DOMAIN;                     *)
(*   - a settled promise is [kind |-> "return", value |-> v] or            *)
(*     [kind |-> "throw", error |-> e], e a record with the error's        *)
(*     constructor name in its field type.                                 *)
(***************************************************************************)
EXTENDS Naturals, Integers, Sequences, FiniteSets, TLC

(***************************************************************************)
(* Bounds of the model.                                                    *)
(***************************************************************************)
\* longest checks array of a snapshot drawn as an input of the gate
MaxChecks == 2
\* number of guarded calls made on the client
MaxCalls == 2
\* largest count a severity has in the metadata block of an audit report
MaxCount == 1
\* most per-package records an audit report holds
MaxVulns == 2

\* how many times the script is run in one behaviour
MaxRuns == 2

(***************************************************************************)
(* Value helpers.                                                          *)
(***************************************************************************)
Null == <<>>

Some(s) == <<s>>

\* a ?? b on optional strings
Coalesce(a, b) == IF a # Null THEN a ELSE b

\* JavaScript truthiness of an optional string: null, undefined and "" are falsy
Truthy(a) == a # Null /\ a # Some("")

\* {...a, ...b}: the fields of b win
Spread(a, b) ==
  [k \in (DOMAIN a) \cup (DOMAIN b) |-> IF k \in DOMAIN b THEN b[k] ELSE a[k]]

Return(v) == [kind |-> "return", value |-> v]

Throw(e) == [kind |-> "throw", error |-> e]

\* new Error(message) and the runtime's own error classes
ErrorOf(type, message) == [type |-> type, message |-> message]

\* new GuardrailsViolationError(message, outcome)
GuardrailsViolationError(message, outcome) ==
  [type |-> "GuardrailsViolationError", message |-> message, outcome |-> outcome]

\* toErrorMessage(error): every error of the model is an Error instance
toErrorMessage(error) == error.message

(***************************************************************************)
(* normalizeMode.  A string is a sequence of one-character strings, so     *)
(* that trim() and toLowerCase() are computed, not assumed.                *)
(***************************************************************************)
Whitespace == {" "}

UpperCase == <<"A","B","C","D","E","F","G","H","I","J","K","L","M",
               "N","O","P","Q","R","S","T","U","V","W","X","Y","Z">>

LowerCase == <<"a","b","c","d","e","f","g","h","i","j","k","l","m",
               "n","o","p","q","r","s","t","u","v","w","x","y","z">>

LowerOf(ch) ==
  IF \E i \in 1..Len(UpperCase) : UpperCase[i] = ch
  THEN LowerCase[CHOOSE i \in 1..Len(UpperCase) : UpperCase[i] = ch]
  ELSE ch

toLowerCase(chars) == [i \in 1..Len(chars) |-> LowerOf(chars[i])]

RECURSIVE trimStart(_)
trimStart(chars) ==
  IF chars # <<>> /\ Head(chars) \in Whitespace THEN trimStart(Tail(chars)) ELSE chars

RECURSIVE trimEnd(_)
trimEnd(chars) ==
  IF chars # <<>> /\ chars[Len(chars)] \in Whitespace
  THEN trimEnd(SubSeq(chars, 1, Len(chars) - 1))
  ELSE chars

trim(chars) == trimEnd(trimStart(chars))

\* the option value options.mode: [type |-> "undefined"], [type |-> "number"]
\* or [type |-> "string", chars |-> <<...>>]
StrMode(chars) == [type |-> "string", chars |-> chars]

UndefinedMode == [type |-> "undefined"]

\* normalizeMode with bypass as the fallback of an unrecognized string
normalizeMode_fallsBackToBypass(mode) ==
  IF mode.type = "string"
  THEN LET normalized == toLowerCase(trim(mode.chars))
       IN  IF \/ normalized = <<"e","n","f","o","r","c","e","d">>
              \/ normalized = <<"e","n","f","o","r","c","e">>
              \/ normalized = <<"e","f","o","r","c","e">>
           THEN "enforced"
           ELSE "bypass"
  ELSE "enforced"

normalizeMode(mode) ==
  IF mode.type = "string"
  THEN LET normalized == toLowerCase(trim(mode.chars))
       IN  IF \/ normalized = <<"e","n","f","o","r","c","e","d">>
              \/ normalized = <<"e","n","f","o","r","c","e">>
              \/ normalized = <<"e","f","o","r","c","e">>
           THEN "enforced"
           ELSE IF normalized = <<"b","y","p","a","s","s">>
                THEN "bypass"
                ELSE "enforced"
  ELSE "enforced"

(***************************************************************************)
(* Payload validation and the failure reason.                              *)
(***************************************************************************)
isCheckStatus(value) == value \in {"pass", "warn", "fail"}

\* name is a string and details an optional string in every check of the model
isCheck(value) == isCheckStatus(value.status)

\* response.json().catch(() => null) and a body that is no object
NullBody == [jsonNull |-> TRUE]

isStatusPayload(value) ==
  /\ value # NullBody
  /\ "overall" \in DOMAIN value
  /\ value.overall \in {"green", "yellow", "red"}
  /\ "checks" \in DOMAIN value
  /\ \A i \in 1..Len(value.checks) : isCheck(value.checks[i])

\* mutant of firstFailingIndex: the last failing check instead of the first
lastFailingIndex(status) ==
  IF \E i \in 1..Len(status.checks) : status.checks[i].status = "fail"
  THEN CHOOSE i \in 1..Len(status.checks) :
         /\ status.checks[i].status = "fail"
         /\ \A j \in (i + 1)..Len(status.checks) : status.checks[j].status # "fail"
  ELSE 0

\* status.checks.find(check => check.status === "fail") ?? null, as the index
\* of the check found (0: none)
firstFailingIndex(status) ==
  IF \E i \in 1..Len(status.checks) : status.checks[i].status = "fail"
  THEN CHOOSE i \in 1..Len(status.checks) :
         /\ status.checks[i].status = "fail"
         /\ \A j \in 1..(i - 1) : status.checks[j].status # "fail"
  ELSE 0

buildFailureReason(status, fallback) ==
  LET idx == firstFailingIndex(status)
  IN  IF idx = 0
      THEN fallback
      ELSE LET failingCheck == status.checks[idx]
           IN  IF Truthy(failingCheck.details)
               THEN failingCheck.name \o " (" \o failingCheck.details[1] \o ")"
               ELSE failingCheck.name

(***************************************************************************)
(* withTimeout, the installed-version check and the two preflight sources. *)
(***************************************************************************)
\* options.timeoutMs ?? 10_000
DefaultTimeoutMs == 10000

\* withTimeout(timeoutMs): whether an abort signal is armed.  Every number of
\* the model is finite.
withTimeout(timeoutMs) == [hasSignal |-> timeoutMs > 0]

\* assertExpectedXrplVersion: Null when it returns, the message when it throws.
\* actualVersion is readInstalledXrplVersion(): Null when xrpl/package.json
\* cannot be required.
assertExpectedXrplVersion(expectedVersion, actualVersion) ==
  IF expectedVersion = Null
  THEN Null
  ELSE IF ~Truthy(actualVersion)
       THEN Some("Unable to read installed xrpl version")
       ELSE IF actualVersion # expectedVersion
            THEN Some("Installed xrpl version (" \o actualVersion[1]
                      \o ") does not match expected version ("
                      \o expectedVersion[1] \o ")")
            ELSE Null

GoodEndpoint == "http://localhost:3000/api/preflight"

\* new URL(s) throws on a string that is no absolute URL
ValidUrl(s) == s = GoodEndpoint

\* the query the SDK sends to the endpoint
httpRequest(mode, options) ==
  [mode |-> mode,
   simulate |-> IF options.simulateVersionMismatch THEN Some("version_mismatch") ELSE Null]

Pending == [kind |-> "pending"]

\* mutant of httpOutcome: the body's fields spread last, over the gate's own
httpOutcome_payloadWins(mode, payload, status) ==
  LET reason ==
        IF payload.overall = "red"
        THEN Some(buildFailureReason(payload, "preflight returned " \o ToString(status)))
        ELSE Null
  IN  Spread([mode |-> mode,
              blocked |-> (mode = "enforced" /\ payload.overall = "red"),
              reason |-> reason,
              source |-> "http"],
             payload)

\* the outcome runHttpPreflight builds from a valid payload
httpOutcome(mode, payload, status) ==
  LET reason ==
        IF payload.overall = "red"
        THEN Some(buildFailureReason(payload, "preflight returned " \o ToString(status)))
        ELSE Null
  IN  Spread(payload,
             [mode |-> mode,
              blocked |-> (mode = "enforced" /\ payload.overall = "red"),
              reason |-> reason,
              source |-> "http"])

\* mutant of runHttpPreflight: a transport failure becomes a red outcome
runHttpPreflight_failClosed(mode, options, net) ==
  IF net.kind = "response" /\ isStatusPayload(net.body)
  THEN Return(httpOutcome(mode, net.body, net.status))
  ELSE Return(httpOutcome(mode, [overall |-> "red", checks |-> <<>>], 0))

\* runHttpPreflight(mode, options) against a network that is unreachable,
\* never answers, or answers with a status code and a parsed body
runHttpPreflight(mode, options, net) ==
  IF ~ValidUrl(options.preflightEndpoint[1])
  THEN Throw(ErrorOf("TypeError", "Invalid URL"))
  ELSE
    LET timeout == withTimeout(IF options.timeoutMs # Null
                               THEN options.timeoutMs[1]
                               ELSE DefaultTimeoutMs)
    IN  CASE net.kind = "unreachable" -> Throw(ErrorOf("TypeError", "fetch failed"))
          [] net.kind = "hang" ->
               IF timeout.hasSignal
               THEN Throw(ErrorOf("AbortError", "This operation was aborted"))
               ELSE Pending
          [] net.kind = "response" ->
               IF ~isStatusPayload(net.body)
               THEN Throw(ErrorOf("Error",
                      "Preflight endpoint returned invalid payload ("
                      \o ToString(net.status) \o ")"))
               ELSE Return(httpOutcome(mode, net.body, net.status))

\* fs.readFile + JSON.parse + isStatusPayload of runScriptPreflight's second try
readStatusFile(fileRead) ==
  CASE fileRead.kind = "enoent" ->
         Throw(ErrorOf("Error", "ENOENT: no such file or directory"))
    [] fileRead.kind = "badjson" ->
         Throw(ErrorOf("SyntaxError", "Unexpected end of JSON input"))
    [] fileRead.kind = "json" ->
         IF ~isStatusPayload(fileRead.value)
         THEN Throw(ErrorOf("Error",
                "status.json does not contain a valid guardrails payload"))
         ELSE Return(fileRead.value)

\* the fallback and the reason of runScriptPreflight
scriptReason(statusPayload, executionError) ==
  LET fallback ==
        IF executionError # Null
        THEN executionError[1]
        ELSE IF statusPayload.overall = "red"
             THEN "Guardrails checks failed."
             ELSE ""
  IN  IF statusPayload.overall = "red"
      THEN Some(buildFailureReason(statusPayload, fallback))
      ELSE Null

\* mutant of scriptOutcome: a reason only when the outcome is blocked
scriptOutcome_reasonWhenBlocked(mode, statusPayload, executionError) ==
  Spread(statusPayload,
         [mode |-> mode,
          blocked |-> (mode = "enforced" /\ statusPayload.overall = "red"),
          reason |-> IF mode = "enforced"
                     THEN scriptReason(statusPayload, executionError)
                     ELSE Null,
          source |-> "script"])

\* the outcome runScriptPreflight builds from a valid status file
scriptOutcome(mode, statusPayload, executionError) ==
  Spread(statusPayload,
         [mode |-> mode,
          blocked |-> (mode = "enforced" /\ statusPayload.overall = "red"),
          reason |-> scriptReason(statusPayload, executionError),
          source |-> "script"])

\* runScriptPreflight(mode, options) given how the script execution ended
\* (executionError: Null or the message) and what the status file holds
\* when it is read
runScriptPreflight(mode, options, executionError, fileRead) ==
  LET read == readStatusFile(fileRead)
  IN  IF read.kind = "throw"
      THEN IF Truthy(executionError)
           THEN Throw(ErrorOf("Error",
                  "Preflight script failed (" \o executionError[1]
                  \o ") and status file could not be read ("
                  \o toErrorMessage(read.error) \o ")"))
           ELSE read
      ELSE Return(scriptOutcome(mode, read.value, executionError))

\* preflightGuardrails(options) in an environment env: installed (the xrpl
\* version installed), net (the endpoint), exec (how the script ends) and
\* file (the status file read afterwards)
preflightGuardrails(options, env) ==
  LET mode == normalizeMode(options.mode)
      versionError == assertExpectedXrplVersion(options.expectedXrplVersion, env.installed)
  IN  IF versionError # Null
      THEN Throw(ErrorOf("Error", versionError[1]))
      ELSE IF Truthy(options.preflightEndpoint)
           THEN runHttpPreflight(mode, options, env.net)
           ELSE runScriptPreflight(mode, options, env.exec, env.file)

\* mutant of assertOutcome: a failure of the preflight is wrapped as a violation
assertOutcome_wrapsFailures(preflight) ==
  IF preflight.kind = "throw"
  THEN Throw(GuardrailsViolationError(preflight.error.message, [overall |-> "red"]))
  ELSE IF preflight.kind # "return"
  THEN preflight
  ELSE LET outcome == preflight.value
       IN  IF outcome.mode = "enforced" /\ outcome.overall = "red"
           THEN Throw(GuardrailsViolationError(
                  Coalesce(outcome.reason,
                           Some("Guardrails blocked the action in enforced mode."))[1],
                  outcome))
           ELSE Return(outcome)

\* mutant of assertOutcome: the mode is not consulted
assertOutcome_ignoresMode(preflight) ==
  IF preflight.kind # "return"
  THEN preflight
  ELSE LET outcome == preflight.value
       IN  IF outcome.overall = "red"
           THEN Throw(GuardrailsViolationError(
                  Coalesce(outcome.reason,
                           Some("Guardrails blocked the action in enforced mode."))[1],
                  outcome))
           ELSE Return(outcome)

\* the part of assertGuardrails after `await preflightGuardrails(options)`
assertOutcome(preflight) ==
  IF preflight.kind # "return"
  THEN preflight
  ELSE LET outcome == preflight.value
       IN  IF outcome.mode = "enforced" /\ outcome.overall = "red"
           THEN Throw(GuardrailsViolationError(
                  Coalesce(outcome.reason,
                           Some("Guardrails blocked the action in enforced mode."))[1],
                  outcome))
           ELSE Return(outcome)

assertGuardrails(options, env) == assertOutcome(preflightGuardrails(options, env))

(***************************************************************************)
(* scripts/preflight.ts: the helpers of the check runner.  Version strings *)
(* and lockfile paths are sequences of one-character strings.              *)
(***************************************************************************)
CHECK_STATUS == [PASS |-> "pass", WARN |-> "warn", FAIL |-> "fail"]

SEVERITIES == <<"critical", "high", "moderate", "low">>

RECURSIVE Join(_)
\* the JavaScript string of a sequence of characters
Join(chars) == IF chars = <<>> THEN "" ELSE Head(chars) \o Join(Tail(chars))

Digits == {"0", "1", "2", "3", "4", "5", "6", "7", "8", "9"}

\* the letters that occur in the version strings of the model
Letters == {"a", "b", "e", "t", "l", "s", "r", "c"}

\* [0-9A-Za-z.-]
IdentChars == Digits \cup Letters \cup {".", "-"}

RECURSIVE skipDigits(_, _)
\* \d* from position i: the position after the digits
skipDigits(s, i) ==
  IF i <= Len(s) /\ s[i] \in Digits THEN skipDigits(s, i + 1) ELSE i

\* (0|[1-9]\d*) at position i: the position after it, 0 when it does not match
numericEnd(s, i) ==
  IF i > Len(s) \/ i = 0
  THEN 0
  ELSE IF s[i] = "0"
       THEN i + 1
       ELSE IF s[i] \in Digits THEN skipDigits(s, i + 1) ELSE 0

\* a literal character at position i: the position after it, 0 otherwise
literalEnd(s, i, ch) ==
  IF i # 0 /\ i <= Len(s) /\ s[i] = ch THEN i + 1 ELSE 0

\* [0-9A-Za-z.-]+ over the whole of s
isIdent(s) == s # <<>> /\ \A k \in 1..Len(s) : s[k] \in IdentChars

\* (?:-[0-9A-Za-z.-]+)?(?:\+[0-9A-Za-z.-]+)?$ on the rest of the string;
\* the class holds no "+", so a build part starts at the first "+"
isVersionSuffix(rest) ==
  LET plus == {k \in 1..Len(rest) : rest[k] = "+"}
      firstPlus == IF plus = {} THEN Len(rest) + 1
                   ELSE CHOOSE k \in plus : \A j \in plus : k <= j
      pre == SubSeq(rest, 1, firstPlus - 1)
      build == SubSeq(rest, firstPlus + 1, Len(rest))
  IN  /\ pre = <<>> \/ (Head(pre) = "-" /\ isIdent(Tail(pre)))
      /\ plus = {} \/ isIdent(build)

isExactVersionString(version) ==
  LET major == numericEnd(version, 1)
      minor == numericEnd(version, literalEnd(version, major, "."))
      patch == numericEnd(version, literalEnd(version, minor, "."))
  IN  /\ patch # 0
      /\ isVersionSuffix(SubSeq(version, patch, Len(version)))

\* a JSON value that is no object (null, an array, a number, a string)
NotRecord == [notRecord |-> TRUE]

isRecord(value) == value # NotRecord

\* a lockfile path is its sequence of segments: node_modules/xrpl is
\* <<"node_modules", "xrpl">>
isXrplPath(entryPath) ==
  \/ entryPath = <<"node_modules", "xrpl">>
  \/ /\ Len(entryPath) > 2
     /\ SubSeq(entryPath, Len(entryPath) - 1, Len(entryPath)) = <<"node_modules", "xrpl">>

RECURSIVE JoinPath(_)
JoinPath(segments) ==
  IF Len(segments) <= 1
  THEN Join(segments)
  ELSE Head(segments) \o "/" \o JoinPath(Tail(segments))

\* findXrplLockfileEntry: Null or <<[location, version]>>.  packages is
\* [entries |-> the map's entries in insertion order, each [path, value]];
\* a value without a string version has no version field.
findXrplLockfileEntry(lockfileJson) ==
  IF ~isRecord(lockfileJson)
  THEN Null
  ELSE
    LET packages == IF "packages" \in DOMAIN lockfileJson
                    THEN lockfileJson.packages ELSE NotRecord
        entries == IF isRecord(packages) THEN packages.entries ELSE <<>>
        hits == {i \in 1..Len(entries) :
                   /\ isXrplPath(entries[i].path)
                   /\ isRecord(entries[i].value)
                   /\ "version" \in DOMAIN entries[i].value}
    IN  IF hits # {}
        THEN LET i == CHOOSE k \in hits : \A j \in hits : k <= j
             IN  Some([location |-> "packages[\"" \o JoinPath(entries[i].path) \o "\"]",
                       version |-> entries[i].value.version])
        ELSE IF /\ "dependencies" \in DOMAIN lockfileJson
                /\ isRecord(lockfileJson.dependencies)
                /\ "xrpl" \in DOMAIN lockfileJson.dependencies
                /\ isRecord(lockfileJson.dependencies.xrpl)
                /\ "version" \in DOMAIN lockfileJson.dependencies.xrpl
             THEN Some([location |-> "dependencies.xrpl",
                        version |-> lockfileJson.dependencies.xrpl.version])
             ELSE Null

createSeverityCounts == [critical |-> 0, high |-> 0, moderate |-> 0, low |-> 0]

\* asCheck(name, ok, details): details is an optional string, kept when truthy
asCheck(name, ok, details) ==
  [name |-> name,
   status |-> IF ok THEN CHECK_STATUS.PASS ELSE CHECK_STATUS.FAIL,
   details |-> IF Truthy(details) THEN details ELSE Null]

(***************************************************************************)
(* scripts/preflight.ts: the audit check.  A text (stdout, stderr) is      *)
(* [kind |-> "empty"] (empty after trim), [kind |-> "json", value |-> v]   *)
(* (the trimmed text parses to v), [kind |-> "embedded", value |-> v] (it  *)
(* does not parse, the slice from its first "{" to its last "}" parses to  *)
(* v) or [kind |-> "garbage"] (neither parses).  A parsed value is JsNull, *)
(* NotRecord or a record.  Strings of the audit JSON are sequences of      *)
(* characters.                                                             *)
(***************************************************************************)
JsNull == [jsNull |-> TRUE]

normalizeSeverity(severity) ==
  IF severity = Null THEN "" ELSE Join(toLowerCase(severity[1]))

\* nonEmptyString(value): value is Null (no string) or <<chars>>
nonEmptyString(value) ==
  IF value = Null
  THEN Null
  ELSE LET trimmed == trim(value[1])
       IN  IF trimmed # <<>> THEN Some(Join(trimmed)) ELSE Null

\* mutant of addSeverityCount: the severity is compared as it is spelled
addSeverityCount_caseSensitive(counts, severity) ==
  LET spelled == IF severity = Null THEN "" ELSE Join(severity[1])
  IN  IF \E i \in 1..Len(SEVERITIES) : SEVERITIES[i] = spelled
      THEN [counts EXCEPT ![spelled] = @ + 1]
      ELSE counts

\* addSeverityCount(counts, severity) with amount = 1
addSeverityCount(counts, severity) ==
  LET normalized == normalizeSeverity(severity)
  IN  IF \E i \in 1..Len(SEVERITIES) : SEVERITIES[i] = normalized
      THEN [counts EXCEPT ![normalized] = @ + 1]
      ELSE counts

SyntaxErrorMessage == "Unexpected token in JSON"

parseJsonCandidate(text) ==
  CASE text.kind = "empty" ->
         [parsed |-> JsNull, parseError |-> Some("No JSON output from npm audit")]
    [] text.kind = "json" -> [parsed |-> text.value, parseError |-> Null]
    [] text.kind = "embedded" -> [parsed |-> text.value, parseError |-> Null]
    [] text.kind = "garbage" ->
         [parsed |-> JsNull, parseError |-> Some(SyntaxErrorMessage)]

\* an optional field of a JSON record, NotRecord when it is absent
Field(value, name) == IF name \in DOMAIN value THEN value[name] ELSE NotRecord

RECURSIVE countEntries(_, _)
\* the loop of addSeverityCount over the entries that are records
countEntries(entries, counts) ==
  IF entries = <<>>
  THEN counts
  ELSE countEntries(Tail(entries),
         IF isRecord(Head(entries).value)
         THEN addSeverityCount(counts,
                IF "severity" \in DOMAIN Head(entries).value
                THEN Some(Head(entries).value.severity) ELSE Null)
         ELSE counts)

\* the package names of the model in the order Array.prototype.sort gives
PackageOrder == <<"ansi-regex", "glob", "lodash", "minimist", "semver", "ws", "xrpl">>

\* [...set].sort()
sortNames(set) == SelectSeq(PackageOrder, LAMBDA n : n \in set)

\* .slice(0, 5)
MaxPackageNames == 5

\* extractAuditSummary.  metadata.vulnerabilities holds a field per severity
\* whose count is a finite number; vulnerabilities and advisories are
\* [entries |-> the sequence of their entries [name, value]].
extractAuditSummary(parsedAuditJson) ==
  LET meta == IF isRecord(parsedAuditJson) /\ isRecord(Field(parsedAuditJson, "metadata"))
              THEN Field(Field(parsedAuditJson, "metadata"), "vulnerabilities")
              ELSE NotRecord
      countsFromMetadata ==
        isRecord(meta) /\ \E i \in 1..Len(SEVERITIES) : SEVERITIES[i] \in DOMAIN meta
      metaCounts ==
        [sev \in DOMAIN createSeverityCounts |->
           IF isRecord(meta) /\ sev \in DOMAIN meta THEN meta[sev] ELSE 0]
      vulns == IF isRecord(parsedAuditJson) /\ isRecord(Field(parsedAuditJson, "vulnerabilities"))
               THEN parsedAuditJson.vulnerabilities.entries ELSE <<>>
      advisories == IF isRecord(parsedAuditJson) /\ isRecord(Field(parsedAuditJson, "advisories"))
                    THEN parsedAuditJson.advisories.entries ELSE <<>>
      counts ==
        IF countsFromMetadata
        THEN metaCounts
        ELSE countEntries(advisories, countEntries(vulns, metaCounts))
      vulnerablePackages ==
        {vulns[i].name : i \in {k \in 1..Len(vulns) : vulns[k].name # ""}}
          \cup {advisories[i].value.module_name :
                  i \in {k \in 1..Len(advisories) :
                           /\ isRecord(advisories[k].value)
                           /\ "module_name" \in DOMAIN advisories[k].value
                           /\ advisories[k].value.module_name # ""}}
      sorted == sortNames(vulnerablePackages)
  IN  [counts |-> counts,
       vulnerablePackageNames |->
         SubSeq(sorted, 1, IF Len(sorted) < MaxPackageNames
                           THEN Len(sorted) ELSE MaxPackageNames)]

\* a string field of a record: Null unless the field holds a string
StringField(value, name) ==
  IF isRecord(value) /\ name \in DOMAIN value /\ value[name] # NotRecord
       /\ "chars" \in DOMAIN value[name]
  THEN Some(value[name].chars)
  ELSE Null

extractAuditErrorMessage(parsedAuditJson) ==
  IF ~isRecord(parsedAuditJson)
  THEN Null
  ELSE
    LET rootMessage == nonEmptyString(StringField(parsedAuditJson, "message"))
        stringError == nonEmptyString(StringField(parsedAuditJson, "error"))
        error == Field(parsedAuditJson, "error")
        errorIsRecord == isRecord(error) /\ "chars" \notin DOMAIN error
        summary == nonEmptyString(StringField(error, "summary"))
        message == nonEmptyString(StringField(error, "message"))
        detail == nonEmptyString(StringField(error, "detail"))
        errorCode == nonEmptyString(StringField(error, "code"))
    IN  IF Truthy(stringError) THEN stringError
        ELSE IF ~errorIsRecord THEN rootMessage
        ELSE IF Truthy(summary) THEN summary
        ELSE IF Truthy(message) THEN message
        ELSE IF Truthy(detail) THEN detail
        ELSE IF Truthy(rootMessage) THEN rootMessage
        ELSE IF Truthy(errorCode) THEN Some("npm audit error code: " \o errorCode[1])
        ELSE Null

RECURSIVE JoinWith(_, _)
\* Array.prototype.join(sep)
JoinWith(parts, sep) ==
  IF parts = <<>> THEN ""
  ELSE IF Len(parts) = 1 THEN Head(parts)
  ELSE Head(parts) \o sep \o JoinWith(Tail(parts), sep)

\* formatAuditDetails(counts, vulnerablePackageNames, note): note is optional
formatAuditDetails(counts, vulnerablePackageNames, note) ==
  LET packagesText == IF Len(vulnerablePackageNames) > 0
                      THEN JoinWith(vulnerablePackageNames, ", ")
                      ELSE "none"
      details == "critical=" \o ToString(counts.critical)
                 \o ", high=" \o ToString(counts.high)
                 \o ", moderate=" \o ToString(counts.moderate)
                 \o ", low=" \o ToString(counts.low)
                 \o "; packages=" \o packagesText
  IN  IF Truthy(note) THEN details \o "; note=" \o note[1] ELSE details

\* the note about a non-zero exit code
exitNote(exitCode) ==
  IF exitCode = <<1>>
  THEN "npm audit returned non-zero because vulnerabilities were found (expected)"
  ELSE "npm audit exited with code " \o ToString(exitCode[1])

\* mutant of auditStatusOf: exit code 1 is taken as expected on a clean report
auditStatusOf_exitIgnored(counts, auditErrorMessage, nonZeroExit) ==
  IF Truthy(auditErrorMessage) THEN CHECK_STATUS.FAIL
  ELSE IF counts.critical > 0 \/ counts.high > 0
       THEN CHECK_STATUS.FAIL
       ELSE IF counts.moderate > 0 \/ counts.low > 0
            THEN CHECK_STATUS.WARN
            ELSE CHECK_STATUS.PASS

\* mutant of auditStatusOf: a moderate or low count fails like a high one
auditStatusOf_anyCountFails(counts, auditErrorMessage, nonZeroExit) ==
  IF Truthy(auditErrorMessage) THEN CHECK_STATUS.FAIL
  ELSE IF counts.critical > 0 \/ counts.high > 0 \/ counts.moderate > 0 \/ counts.low > 0
       THEN CHECK_STATUS.FAIL
       ELSE IF nonZeroExit THEN CHECK_STATUS.FAIL ELSE CHECK_STATUS.PASS

\* lines 350-368: the status from the counts, the tool's error and the exit code
auditStatusOf(counts, auditErrorMessage, nonZeroExit) ==
  LET byCounts ==
        IF Truthy(auditErrorMessage) THEN CHECK_STATUS.FAIL
        ELSE IF counts.critical > 0 \/ counts.high > 0
             THEN CHECK_STATUS.FAIL
             ELSE IF counts.moderate > 0 \/ counts.low > 0
                  THEN CHECK_STATUS.WARN
                  ELSE CHECK_STATUS.PASS
  IN  IF byCounts = CHECK_STATUS.PASS /\ nonZeroExit
      THEN CHECK_STATUS.FAIL ELSE byCounts

\* runNpmAuditPolicyCheck on what runCommand resolved with: spawnError
\* (optional string), exitCode (<<>> for null, <<n>>), stdout and stderr
runNpmAuditPolicyCheck(auditOutput) ==
  IF Truthy(auditOutput.spawnError)
  THEN [name |-> "npm audit policy",
        status |-> CHECK_STATUS.FAIL,
        details |-> Some(formatAuditDetails(createSeverityCounts, <<>>,
                                            auditOutput.spawnError))]
  ELSE
    LET stdoutResult == parseJsonCandidate(auditOutput.stdout)
        stderrResult == IF stdoutResult.parsed = JsNull
                        THEN parseJsonCandidate(auditOutput.stderr)
                        ELSE [parsed |-> JsNull, parseError |-> Null]
        parsedAuditJson == IF stdoutResult.parsed # JsNull
                           THEN stdoutResult.parsed ELSE stderrResult.parsed
        parseError == Coalesce(stdoutResult.parseError, stderrResult.parseError)
    IN  IF parsedAuditJson = JsNull
        THEN
          LET noteParts ==
                (IF Truthy(parseError)
                 THEN <<"could not parse npm audit JSON (" \o parseError[1] \o ")">>
                 ELSE <<>>)
                \o (IF auditOutput.exitCode # Null
                    THEN <<exitNote(auditOutput.exitCode)>> ELSE <<>>)
          IN  [name |-> "npm audit policy",
               status |-> CHECK_STATUS.FAIL,
               details |-> Some(formatAuditDetails(createSeverityCounts, <<>>,
                                                   Some(JoinWith(noteParts, "; "))))]
        ELSE
          LET summary == extractAuditSummary(parsedAuditJson)
              auditErrorMessage == extractAuditErrorMessage(parsedAuditJson)
              nonZeroExit == auditOutput.exitCode # Null /\ auditOutput.exitCode # <<0>>
              status == auditStatusOf(summary.counts, auditErrorMessage, nonZeroExit)
              noteParts ==
                (IF Truthy(auditErrorMessage) THEN <<auditErrorMessage[1]>> ELSE <<>>)
                \o (IF nonZeroExit THEN <<exitNote(auditOutput.exitCode)>> ELSE <<>>)
          IN  [name |-> "npm audit policy",
               status |-> status,
               details |-> Some(formatAuditDetails(summary.counts,
                                  summary.vulnerablePackageNames,
                                  IF Len(noteParts) > 0
                                  THEN Some(JoinWith(noteParts, "; ")) ELSE Null))]

(***************************************************************************)
(* scripts/preflight.ts: run(), check by check.  fs is what the run finds  *)
(* on disk and what npm audit does; r is the run's local state.            *)
(***************************************************************************)
\* lines 407-414: the three existence checks
structureChecks(fs) ==
  <<asCheck("root package-lock.json exists", fs.hasRootLockfile, Null),
    asCheck("apps/web exists", fs.hasWebDir, Null),
    asCheck("apps/web/package-lock.json does not exist", ~fs.hasWebLockfile, Null)>>

\* createHash("sha256").update(lockfileText).digest("hex"): a function of the text
sha256(text) == "sha256(" \o text \o ")"

\* lines 416-438: the digest check and the lockfile parse.  fs.lockfile is
\* [read |-> "fails"] or [read |-> "ok", text |-> id, json |-> value], json
\* being JsNull when JSON.parse throws.
digestStep(fs, r) ==
  IF fs.hasRootLockfile
  THEN IF fs.lockfile.read = "ok"
       THEN [r EXCEPT
               !.lockfileSha256 = Some(sha256(fs.lockfile.text)),
               !.rootLockfileJson = fs.lockfile.json,
               !.rootLockfileParseError =
                  IF fs.lockfile.json = JsNull THEN Some(SyntaxErrorMessage) ELSE Null,
               !.checks = Append(@,
                  asCheck("sha256 of root package-lock.json computed", TRUE, Null))]
       ELSE [r EXCEPT
               !.rootLockfileParseError = Some("EACCES: permission denied"),
               !.checks = Append(@,
                  asCheck("sha256 of root package-lock.json computed", FALSE,
                          Some("EACCES: permission denied")))]
  ELSE [r EXCEPT
          !.checks = Append(@,
             asCheck("sha256 of root package-lock.json computed", FALSE,
                     Some("root package-lock.json is missing")))]

\* lines 440-466: xrplVersion (Null or <<chars>>) and the failure details.
\* fs.manifest is [exists |-> FALSE] or [exists |-> TRUE, json |-> value],
\* json being JsNull when reading or parsing throws.
pinResult(fs) ==
  LET webPackageJson == fs.manifest.json
      fail(details) == [xrplVersion |-> Null, details |-> Some(details)]
  IN  IF ~fs.manifest.exists
      THEN fail("apps/web/package.json is missing")
      ELSE IF webPackageJson = JsNull
      THEN fail(SyntaxErrorMessage)
      ELSE IF ~isRecord(webPackageJson)
      THEN fail("apps/web/package.json must contain a JSON object")
      ELSE IF ~isRecord(Field(webPackageJson, "dependencies"))
      THEN fail("apps/web/package.json dependencies is missing")
      ELSE IF "xrpl" \notin DOMAIN webPackageJson.dependencies
      THEN fail("dependencies.xrpl is missing")
      ELSE IF ~isExactVersionString(webPackageJson.dependencies.xrpl)
      THEN fail("dependencies.xrpl must be an exact version (no ^ or ~); found \""
                \o Join(webPackageJson.dependencies.xrpl) \o "\"")
      ELSE [xrplVersion |-> Some(webPackageJson.dependencies.xrpl), details |-> Null]

\* lines 468-474
pinStep(fs, r) ==
  LET pin == pinResult(fs)
  IN  [r EXCEPT
         !.xrplVersion = pin.xrplVersion,
         !.checks = Append(@,
            asCheck("apps/web/package.json pins xrpl to an exact version",
                    pin.xrplVersion # Null, pin.details))]

\* lines 476-498: whether the lockfile matches, and the details when not
alignResult(fs, r) ==
  LET fail(details) == [matches |-> FALSE, details |-> Some(details)]
  IN  IF r.xrplVersion = Null
      THEN fail("apps/web/package.json xrpl version check failed, cannot compare lockfile")
      ELSE IF ~fs.hasRootLockfile
      THEN fail("root package-lock.json is missing")
      ELSE IF r.rootLockfileParseError # Null
      THEN fail("could not parse root package-lock.json ("
                \o r.rootLockfileParseError[1] \o ")")
      ELSE
        LET xrplLockfileEntry == findXrplLockfileEntry(r.rootLockfileJson)
        IN  IF xrplLockfileEntry = Null
            THEN fail("root package-lock.json does not contain an xrpl entry at version \""
                      \o Join(r.xrplVersion[1]) \o "\"")
            ELSE IF xrplLockfileEntry[1].version # r.xrplVersion[1]
            THEN fail(xrplLockfileEntry[1].location \o " is \""
                      \o Join(xrplLockfileEntry[1].version) \o "\", expected \""
                      \o Join(r.xrplVersion[1]) \o "\"")
            ELSE [matches |-> TRUE, details |-> Null]

\* mutant of alignStep: nothing is recorded when there is no pinned version
alignStep_skippedWithoutPin(fs, r) ==
  LET align == alignResult(fs, r)
  IN  IF r.xrplVersion = Null
      THEN r
      ELSE [r EXCEPT
              !.checks = Append(@,
                 asCheck("root package-lock.json contains xrpl at the same version",
                         align.matches, align.details))]

\* lines 500-506
alignStep(fs, r) ==
  LET align == alignResult(fs, r)
  IN  [r EXCEPT
         !.checks = Append(@,
            asCheck("root package-lock.json contains xrpl at the same version",
                    align.matches, align.details))]

\* line 508
auditStep(fs, r) ==
  [r EXCEPT !.checks = Append(@, runNpmAuditPolicyCheck(fs.audit))]

\* mutant of overallOf: a warning is looked for before a failure
overallOf_warnFirst(checks) ==
  LET hasFail == \E i \in 1..Len(checks) : checks[i].status = CHECK_STATUS.FAIL
      hasWarn == \E i \in 1..Len(checks) : checks[i].status = CHECK_STATUS.WARN
  IN  IF hasWarn THEN "yellow" ELSE IF hasFail THEN "red" ELSE "green"

\* lines 510-512
overallOf(checks) ==
  LET hasFail == \E i \in 1..Len(checks) : checks[i].status = CHECK_STATUS.FAIL
      hasWarn == \E i \in 1..Len(checks) : checks[i].status = CHECK_STATUS.WARN
  IN  IF hasFail THEN "red" ELSE IF hasWarn THEN "yellow" ELSE "green"

\* mutant of statusOf: the digest field carries the time of the run
statusOf_stampedDigest(r, now) ==
  [overall |-> overallOf(r.checks),
   timestamp |-> now,
   lockfileSha256 |-> Some(ToString(now)),
   checks |-> r.checks]

\* lines 514-519: `now` is new Date().toISOString()
statusOf(r, now) ==
  [overall |-> overallOf(r.checks),
   timestamp |-> now,
   lockfileSha256 |-> r.lockfileSha256,
   checks |-> r.checks]

(***************************************************************************)
(* State.                                                                  *)
(***************************************************************************)
VARIABLES
  \* a standalone call of preflightGuardrails / assertGuardrails
  pfPc,         \* "idle" | "done"
  pfCall,       \* "none" | "preflightGuardrails" | "assertGuardrails"
  pfInput,      \* the options passed and the environment of the call
  pfPreflight,  \* what preflightGuardrails settled with inside the call
  pfResult      \* what the caller of the call received

pfVars == <<pfPc, pfCall, pfInput, pfPreflight, pfResult>>

VARIABLES
  \* one execution of scripts/preflight.ts
  fs,          \* what the run finds on disk and what npm audit does
  run,         \* the locals of run() and the position reached
  statusJson,  \* apps/web/public/status.json as the run leaves it
  clock        \* the wall clock read by new Date()

runVars == <<fs, run, statusJson, clock>>

VARIABLES
  \* a GuardedXrplClient and the callers of its guarded methods
  client,    \* this.mode and this.guardrails, set by the constructor
  world,     \* what a preflight meets when it runs
  builtIn,   \* the world the client was constructed in
  calls,     \* per caller, the guarded call in flight
  started    \* the number of guarded calls started so far

clVars == <<client, world, builtIn, calls, started>>

VARIABLES
  \* the preflight invocations in flight: requests to the endpoint
  \* (api/preflight/route.ts) and script-mode calls of the SDK
  inv        \* per invoker, the request, the position and the response

invVars == <<inv>>

VARIABLES
  \* the web application (apps/web/app)
  norm,      \* a mode value and what each normaliser made of it
  processEnv, \* the build environment: NODE_ENV and NEXT_PUBLIC_DEMO_ALLOW_BYPASS
  storage,   \* localStorage: the items guardrails_mode and guardrails_bypass
  home,      \* the state of the home page
  demo,      \* the state of the demo page
  transfer   \* the state of the transfer page and its call in flight

webVars == <<norm, processEnv, storage, home, demo, transfer>>

(***************************************************************************)
(* Inputs of a standalone preflight.                                       *)
(***************************************************************************)
CheckNames == {"xrpl pin", "npm audit policy"}

DetailsDom == {Null, Some(""), Some("critical=1")}

\* the details vary on the failing checks, the ones a reason is built from
CheckDom ==
  {c \in [name : CheckNames, status : {"pass", "warn", "fail"}, details : DetailsDom] :
     c.status # "fail" => c.details = Null}

CheckSeqs == UNION {[1..n -> CheckDom] : n \in 0..MaxChecks}

Overalls == {"green", "yellow", "red"}

\* every well-formed body, whether or not its overall agrees with its checks:
\* a remote endpoint and a status file are not bound to the script's rule
Snapshots == [overall : Overalls, checks : CheckSeqs]

\* well-formed bodies that carry the outcome's own field names
ForgedBodies ==
  {Spread([overall |-> "red",
           checks |-> <<[name |-> "xrpl pin", status |-> "fail", details |-> Null]>>],
          [mode |-> "bypass", blocked |-> FALSE, reason |-> Null, source |-> "forged"]),
   Spread([overall |-> "green", checks |-> <<>>],
          [mode |-> "enforced", blocked |-> TRUE, reason |-> Some("forged"),
           source |-> "forged"])}

\* the body the endpoint answers with when it cannot read status.json
RouteErrorBody ==
  [overall |-> "red", error |-> "Unable to read status.json after running preflight"]

InvalidBodies ==
  {NullBody,
   RouteErrorBody,
   [overall |-> "purple", checks |-> <<>>],
   [overall |-> "red",
    checks |-> <<[name |-> "xrpl pin", status |-> "error", details |-> Null]>>]}

Bodies == Snapshots \cup ForgedBodies \cup InvalidBodies

\* a few bodies for the inputs that vary the options instead
FewBodies ==
  {[overall |-> "green", checks |-> <<>>],
   [overall |-> "red",
    checks |-> <<[name |-> "xrpl pin", status |-> "fail", details |-> Some("critical=1")]>>],
   RouteErrorBody}

Chars(mode) ==
  CASE mode = "enforced" -> <<"e","n","f","o","r","c","e","d">>
    [] mode = "bypass" -> <<"b","y","p","a","s","s">>

ModeInputs ==
  {UndefinedMode, [type |-> "number"],
   StrMode(Chars("enforced")), StrMode(Chars("bypass")),
   StrMode(<<" ","B","y","p","a","s","s"," ">>),
   StrMode(<<"e","n","f","o","r","c","e">>),
   StrMode(<<"e","f","o","r","c","e">>),
   StrMode(<<"o","f","f">>)}

StatusCodes == {200, 500}

ExecMessage == "Command failed: node scripts/preflight.ts"

DefaultEnv ==
  [installed |-> Some("2.14.0"),
   net |-> [kind |-> "unreachable"],
   exec |-> Null,
   file |-> [kind |-> "enoent"]]

DefaultOptions ==
  [mode |-> UndefinedMode,
   expectedXrplVersion |-> Null,
   preflightEndpoint |-> Null,
   simulateVersionMismatch |-> FALSE,
   timeoutMs |-> Null]

NetDom(bodies) ==
  {[kind |-> "unreachable"], [kind |-> "hang"]}
    \cup {[kind |-> "response", status |-> st, body |-> b] : st \in StatusCodes, b \in bodies}

FileDom(bodies) ==
  {[kind |-> "enoent"], [kind |-> "badjson"]}
    \cup {[kind |-> "json", value |-> b] : b \in bodies}

\* every body, under the two modes, from the endpoint
HttpBodyInputs ==
  {[options |-> [DefaultOptions EXCEPT !.mode = StrMode(Chars(m)),
                                       !.preflightEndpoint = Some(GoodEndpoint)],
    env |-> [DefaultEnv EXCEPT !.net = n]] :
      m \in {"enforced", "bypass"}, n \in NetDom(Bodies)}

\* every body, under the two modes, from the status file
ScriptBodyInputs ==
  {[options |-> [DefaultOptions EXCEPT !.mode = StrMode(Chars(m))],
    env |-> [DefaultEnv EXCEPT !.exec = e, !.file = f]] :
      m \in {"enforced", "bypass"}, e \in {Null, Some(ExecMessage)}, f \in FileDom(Bodies)}

\* every option, over a few bodies, with an endpoint
HttpOptionInputs ==
  {[options |-> [mode |-> m, expectedXrplVersion |-> ev, preflightEndpoint |-> ep,
                 simulateVersionMismatch |-> FALSE, timeoutMs |-> t],
    env |-> [installed |-> iv, net |-> n, exec |-> Null, file |-> [kind |-> "enoent"]]] :
      m \in ModeInputs, ev \in {Null, Some("2.14.0")},
      ep \in {Some(GoodEndpoint), Some("localhost")},
      t \in {Null, <<0>>, <<5000>>}, iv \in {Null, Some("2.14.0"), Some("2.13.0")},
      n \in NetDom(FewBodies)}

\* every option, over a few bodies, without one
ScriptOptionInputs ==
  {[options |-> [mode |-> m, expectedXrplVersion |-> ev, preflightEndpoint |-> ep,
                 simulateVersionMismatch |-> FALSE, timeoutMs |-> Null],
    env |-> [installed |-> iv, net |-> [kind |-> "unreachable"], exec |-> e, file |-> f]] :
      m \in ModeInputs, ev \in {Null, Some("2.14.0")}, ep \in {Null, Some("")},
      iv \in {Null, Some("2.14.0"), Some("2.13.0")},
      e \in {Null, Some(ExecMessage)}, f \in FileDom(FewBodies)}

\* the families of inputs a call draws from
PreflightInputs ==
  {HttpBodyInputs, ScriptBodyInputs, HttpOptionInputs, ScriptOptionInputs}

(***************************************************************************)
(* Standalone calls of the two exported functions.                         *)
(***************************************************************************)
NoValue == [kind |-> "none"]

PfInit ==
  /\ pfPc = "idle"
  /\ pfCall = "none"
  /\ pfInput = [options |-> DefaultOptions, env |-> DefaultEnv]
  /\ pfPreflight = NoValue
  /\ pfResult = NoValue

\* await preflightGuardrails(options)
PfCallPreflight ==
  /\ pfPc = "idle"
  /\ \E family \in PreflightInputs : \E inp \in family :
       /\ pfInput' = inp
       /\ pfPreflight' = preflightGuardrails(inp.options, inp.env)
       /\ pfResult' = pfPreflight'
  /\ pfCall' = "preflightGuardrails"
  /\ pfPc' = "done"
  /\ UNCHANGED <<runVars, clVars, invVars, webVars>>

\* await assertGuardrails(options)
PfCallAssert ==
  /\ pfPc = "idle"
  /\ \E family \in PreflightInputs : \E inp \in family :
       /\ pfInput' = inp
       /\ pfPreflight' = preflightGuardrails(inp.options, inp.env)
       /\ pfResult' = assertGuardrails(inp.options, inp.env)
  /\ pfCall' = "assertGuardrails"
  /\ pfPc' = "done"
  /\ UNCHANGED <<runVars, clVars, invVars, webVars>>

PfReset ==
  /\ pfPc = "done"
  /\ pfPc' = "idle"
  /\ pfCall' = "none"
  /\ pfInput' = [options |-> DefaultOptions, env |-> DefaultEnv]
  /\ pfPreflight' = NoValue
  /\ pfResult' = NoValue
  /\ UNCHANGED <<runVars, clVars, invVars, webVars>>

(***************************************************************************)
(* Inputs of a run of the script.                                          *)
(***************************************************************************)
V2140 == <<"2", ".", "1", "4", ".", "0">>

V2130 == <<"2", ".", "1", "3", ".", "0">>

ManifestVersions ==
  {V2140,
   <<"^">> \o V2140,
   <<"2", ".", "1", "4">>,
   V2140 \o <<"-", "b", "e", "t", "a", ".", "1", "+", "c", "1">>}

Manifests ==
  {[exists |-> FALSE, json |-> JsNull],
   [exists |-> TRUE, json |-> JsNull],
   [exists |-> TRUE, json |-> NotRecord],
   [exists |-> TRUE, json |-> [private |-> TRUE]],
   [exists |-> TRUE, json |-> [dependencies |-> [next |-> <<"1", "5", ".", "0", ".", "0">>]]]}
  \cup {[exists |-> TRUE, json |-> [dependencies |-> [xrpl |-> v]]] : v \in ManifestVersions}

RootPackage == [path |-> <<>>, value |-> [name |-> "xrpl-guardrails"]]

LockfileJsons ==
  {JsNull,
   NotRecord,
   [packages |-> NotRecord],
   [packages |-> [entries |-> <<RootPackage>>]],
   [packages |-> [entries |-> <<RootPackage,
                   [path |-> <<"node_modules", "xrpl">>, value |-> [version |-> V2140]]>>]],
   [packages |-> [entries |-> <<RootPackage,
                   [path |-> <<"node_modules", "xrpl">>, value |-> [version |-> V2130]]>>]],
   [packages |-> [entries |-> <<RootPackage,
                   [path |-> <<"node_modules", "ripple-lib", "node_modules", "xrpl">>,
                    value |-> [version |-> V2130]],
                   [path |-> <<"node_modules", "xrpl">>, value |-> [version |-> V2140]]>>]],
   [packages |-> [entries |-> <<RootPackage,
                   [path |-> <<"node_modules", "ripple-lib", "node_modules", "xrpl">>,
                    value |-> [version |-> V2140]],
                   [path |-> <<"node_modules", "xrpl">>, value |-> [version |-> V2130]]>>]],
   [packages |-> [entries |-> <<RootPackage,
                   [path |-> <<"node_modules", "ripple-lib", "node_modules", "xrpl">>,
                    value |-> [version |-> V2140]]>>]],
   [dependencies |-> [xrpl |-> [version |-> V2140]]]}

RECURSIVE EntriesText(_)
EntriesText(entries) ==
  IF entries = <<>>
  THEN ""
  ELSE JoinPath(Head(entries).path) \o "@"
       \o (IF "version" \in DOMAIN Head(entries).value
           THEN Join(Head(entries).value.version) ELSE "")
       \o ";" \o EntriesText(Tail(entries))

\* the text of the file a lockfile value was parsed from
LockfileText(json) ==
  CASE json = JsNull -> "truncated"
    [] json = NotRecord -> "[]"
    [] "dependencies" \in DOMAIN json -> "lockfile v1"
    [] ~isRecord(json.packages) -> "lockfile with packages: 1"
    [] OTHER -> "lockfile v3: " \o EntriesText(json.packages.entries)

Lockfiles ==
  {[read |-> "fails"]}
    \cup {[read |-> "ok", text |-> LockfileText(j), json |-> j] : j \in LockfileJsons}

EmptyText == [kind |-> "empty"]

AuditJson(meta) == [auditReportVersion |-> 2, metadata |-> [vulnerabilities |-> meta]]

AuditOutputs ==
  {\* npm cannot be spawned
   [spawnError |-> Some("spawn npm ENOENT"), exitCode |-> Null,
    stdout |-> EmptyText, stderr |-> EmptyText],
   \* a clean report
   [spawnError |-> Null, exitCode |-> <<0>>,
    stdout |-> [kind |-> "json",
                value |-> AuditJson([critical |-> 0, high |-> 0, moderate |-> 0, low |-> 0])],
    stderr |-> EmptyText],
   \* a clean report and exit code 1
   [spawnError |-> Null, exitCode |-> <<1>>,
    stdout |-> [kind |-> "json",
                value |-> AuditJson([critical |-> 0, high |-> 0, moderate |-> 0, low |-> 0])],
    stderr |-> EmptyText],
   \* one moderate vulnerability
   [spawnError |-> Null, exitCode |-> <<1>>,
    stdout |-> [kind |-> "json",
                value |-> [metadata |-> [vulnerabilities |->
                                           [critical |-> 0, high |-> 0, moderate |-> 1, low |-> 0]],
                           vulnerabilities |-> [entries |->
                             <<[name |-> "semver", value |-> [severity |-> <<"m","o","d","e","r","a","t","e">>]]>>]]],
    stderr |-> EmptyText],
   \* one high vulnerability, counted from the records, upper case
   [spawnError |-> Null, exitCode |-> <<1>>,
    stdout |-> [kind |-> "json",
                value |-> [vulnerabilities |-> [entries |->
                             <<[name |-> "ws", value |-> [severity |-> <<"H","I","G","H">>]],
                               [name |-> "glob", value |-> [severity |-> <<"l","o","w">>]]>>]]],
    stderr |-> EmptyText],
   \* the advisories shape, one low advisory
   [spawnError |-> Null, exitCode |-> <<1>>,
    stdout |-> [kind |-> "embedded",
                value |-> [advisories |-> [entries |->
                             <<[name |-> "1179", value |-> [module_name |-> "lodash",
                                                            severity |-> <<"l","o","w">>]]>>]]],
    stderr |-> EmptyText],
   \* the report on standard error
   [spawnError |-> Null, exitCode |-> <<0>>,
    stdout |-> [kind |-> "garbage"],
    stderr |-> [kind |-> "json",
                value |-> AuditJson([critical |-> 0, high |-> 0, moderate |-> 0, low |-> 0])]],
   \* nothing parseable
   [spawnError |-> Null, exitCode |-> <<2>>,
    stdout |-> EmptyText, stderr |-> [kind |-> "garbage"]],
   \* killed by a signal
   [spawnError |-> Null, exitCode |-> Null,
    stdout |-> [kind |-> "garbage"], stderr |-> EmptyText],
   \* an error report of the tool
   [spawnError |-> Null, exitCode |-> <<1>>,
    stdout |-> [kind |-> "json",
                value |-> [error |-> [code |-> [chars |-> <<"E","N","O","L","O","C","K">>],
                                      summary |-> [chars |-> <<" ">>]]]],
    stderr |-> EmptyText]}

\* what is collected from a subprocess that has printed nothing so far
SilentAudit ==
  [spawnError |-> Null, exitCode |-> Null, stdout |-> EmptyText, stderr |-> EmptyText]

\* a filesystem the run can meet: nothing exists under a directory that does
\* not, and an audit subprocess that never closes has no output to vary
FsInputs ==
  {f \in [hasRootLockfile : BOOLEAN, hasWebDir : BOOLEAN, hasWebLockfile : BOOLEAN,
          lockfile : Lockfiles, manifest : Manifests,
          audit : AuditOutputs \cup {SilentAudit},
          auditCloses : BOOLEAN, writeFails : BOOLEAN] :
     /\ ~f.hasWebDir => (~f.hasWebLockfile /\ ~f.manifest.exists)
     /\ ~f.hasRootLockfile => f.lockfile = [read |-> "fails"]
     /\ ~f.manifest.exists => f.manifest.json = JsNull
     /\ ~f.auditCloses => (f.audit = SilentAudit /\ ~f.writeFails)}

DefaultFs ==
  [hasRootLockfile |-> FALSE, hasWebDir |-> FALSE, hasWebLockfile |-> FALSE,
   lockfile |-> [read |-> "fails"], manifest |-> [exists |-> FALSE, json |-> JsNull],
   audit |-> [spawnError |-> Some("spawn npm ENOENT"), exitCode |-> Null,
              stdout |-> EmptyText, stderr |-> EmptyText],
   auditCloses |-> TRUE,
   writeFails |-> FALSE]

(***************************************************************************)
(* Inputs of the audit check: what npm audit can print and exit with.      *)
(***************************************************************************)
\* the reports with a metadata block
MetadataReports ==
  {AuditJson(meta) :
     meta \in [critical : 0..MaxCount, high : 0..MaxCount,
               moderate : 0..MaxCount, low : 0..MaxCount]}

\* what a per-package record can be: a record with a severity in some
\* spelling, a record without one, or no record at all
VulnerabilityValues ==
  {[severity |-> chars] :
     chars \in {<<"c","r","i","t","i","c","a","l">>, <<"H","I","G","H">>,
                <<"m","o","d","e","r","a","t","e">>, <<"l","o","w">>,
                <<"i","n","f","o">>}}
    \cup {[via |-> "range"], NotRecord}

\* the entries of a per-package map: the i-th key is the i-th package name
EntriesOf(values) ==
  [i \in 1..Len(values) |-> [name |-> PackageOrder[i], value |-> values[i]]]

ValueSeqs == UNION {[1..n -> VulnerabilityValues] : n \in 0..MaxVulns}

\* the reports in the vulnerabilities shape and in the advisories shape
RecordReports ==
  {[vulnerabilities |-> [entries |-> EntriesOf(values)]] : values \in ValueSeqs}
    \cup {[advisories |-> [entries |-> EntriesOf(values)]] : values \in ValueSeqs}

\* the reports in which the tool reports an error of its own
ErrorReports ==
  {[error |-> [code |-> [chars |-> <<"E","N","O","L","O","C","K">>],
               summary |-> [chars |-> <<" ">>]]],
   [error |-> [chars |-> <<"E","4","0","3">>],
    metadata |-> [vulnerabilities |->
                    [critical |-> 0, high |-> 0, moderate |-> 0, low |-> 0]]],
   [message |-> [chars |-> <<"f","a","i","l">>],
    metadata |-> [vulnerabilities |->
                    [critical |-> 0, high |-> 0, moderate |-> 1, low |-> 0]]]}

\* metadata blocks with a count below zero: any finite number passes the
\* test of line 159
NegativeReports ==
  {AuditJson([createSeverityCounts EXCEPT ![sev] = -1]) :
     sev \in DOMAIN createSeverityCounts}

Record(chars) == [severity |-> chars]

\* reports with a metadata block and records, with a metadata block that has
\* some or none of the four counts, and with both record shapes
MixedReports ==
  {[metadata |-> [vulnerabilities |->
                    [critical |-> 1, high |-> 0, moderate |-> 0, low |-> 0]],
    vulnerabilities |-> [entries |-> EntriesOf(<<Record(<<"l","o","w">>)>>)]],
   [metadata |-> [vulnerabilities |-> [high |-> 1]],
    vulnerabilities |-> [entries |->
       EntriesOf(<<Record(<<"c","r","i","t","i","c","a","l">>)>>)]],
   [metadata |-> [vulnerabilities |-> [total |-> 2]],
    vulnerabilities |-> [entries |->
       EntriesOf(<<Record(<<"H","I","G","H">>), Record(<<"l","o","w">>)>>)]],
   [vulnerabilities |-> [entries |->
       EntriesOf(<<Record(<<"m","o","d","e","r","a","t","e">>)>>)],
    advisories |-> [entries |->
       <<[name |-> "1179",
          value |-> [module_name |-> "lodash",
                     severity |-> <<"M","o","d","e","r","a","t","e">>]],
         [name |-> "1180",
          value |-> [module_name |-> "ws", severity |-> <<"i","n","f","o">>]]>>]]}

\* the JSON values a text can parse to: reports, and JSON that is no object
ParsedValues ==
  MetadataReports \cup RecordReports \cup ErrorReports \cup NegativeReports
    \cup MixedReports \cup {NotRecord}

CleanReport == AuditJson(createSeverityCounts)

CriticalReport == AuditJson([createSeverityCounts EXCEPT !.critical = 1])

\* where the JSON is found: on stdout, inside other text on stdout, on stderr
OutputTexts ==
  {[stdout |-> [kind |-> "json", value |-> v], stderr |-> EmptyText] : v \in ParsedValues}
    \cup {[stdout |-> [kind |-> "embedded", value |-> v], stderr |-> [kind |-> "garbage"]] :
            v \in ParsedValues \ {NotRecord}}
    \cup {[stdout |-> EmptyText, stderr |-> [kind |-> "json", value |-> v]] :
            v \in ParsedValues}
    \cup {[stdout |-> [kind |-> "embedded", value |-> CleanReport],
           stderr |-> [kind |-> "json", value |-> CriticalReport]],
          [stdout |-> [kind |-> "embedded", value |-> CriticalReport],
           stderr |-> [kind |-> "json", value |-> CleanReport]],
          [stdout |-> EmptyText, stderr |-> EmptyText],
          [stdout |-> [kind |-> "json", value |-> JsNull], stderr |-> EmptyText],
          [stdout |-> [kind |-> "garbage"], stderr |-> EmptyText],
          [stdout |-> [kind |-> "garbage"], stderr |-> [kind |-> "garbage"]]}

ExitCodes == {Null, <<0>>, <<1>>, <<2>>}

AuditCases ==
  {[spawnError |-> Null, exitCode |-> e, stdout |-> t.stdout, stderr |-> t.stderr] :
     e \in ExitCodes, t \in OutputTexts}
    \cup {[spawnError |-> Some("spawn npm ENOENT"), exitCode |-> Null,
           stdout |-> EmptyText, stderr |-> EmptyText]}

\* a repository whose other six checks pass
CleanFs ==
  [hasRootLockfile |-> TRUE, hasWebDir |-> TRUE, hasWebLockfile |-> FALSE,
   lockfile |->
     LET json == [packages |-> [entries |-> <<RootPackage,
                     [path |-> <<"node_modules", "xrpl">>,
                      value |-> [version |-> V2140]]>>]]
     IN  [read |-> "ok", text |-> LockfileText(json), json |-> json],
   manifest |-> [exists |-> TRUE, json |-> [dependencies |-> [xrpl |-> V2140]]],
   audit |-> [spawnError |-> Some("spawn npm ENOENT"), exitCode |-> Null,
              stdout |-> EmptyText, stderr |-> EmptyText],
   auditCloses |-> TRUE,
   writeFails |-> FALSE]

AuditFsInputs ==
  {[CleanFs EXCEPT !.audit = a, !.writeFails = w] : a \in AuditCases, w \in BOOLEAN}

(***************************************************************************)
(* A run of the script, one await at a time.                               *)
(***************************************************************************)
NewRun ==
  [pc |-> "start", checks |-> <<>>, lockfileSha256 |-> Null, rootLockfileJson |-> JsNull,
   rootLockfileParseError |-> Null, xrplVersion |-> Null, status |-> NoValue,
   exitCode |-> 0]

RunIdle ==
  /\ fs = DefaultFs
  /\ run = [NewRun EXCEPT !.pc = "off"]
  /\ statusJson = [kind |-> "enoent"]
  /\ clock = 1

RunInit ==
  /\ fs \in FsInputs
  /\ run = NewRun
  /\ statusJson = [kind |-> "enoent"]
  /\ clock = 1

RunStructure ==
  /\ run.pc = "start"
  /\ run' = [run EXCEPT !.pc = "digest", !.checks = structureChecks(fs)]
  /\ UNCHANGED <<fs, statusJson, clock, pfVars, clVars, invVars, webVars>>

RunDigest ==
  /\ run.pc = "digest"
  /\ run' = [digestStep(fs, run) EXCEPT !.pc = "pin"]
  /\ UNCHANGED <<fs, statusJson, clock, pfVars, clVars, invVars, webVars>>

RunPin ==
  /\ run.pc = "pin"
  /\ run' = [pinStep(fs, run) EXCEPT !.pc = "align"]
  /\ UNCHANGED <<fs, statusJson, clock, pfVars, clVars, invVars, webVars>>

RunAlign ==
  /\ run.pc = "align"
  /\ run' = [alignStep(fs, run) EXCEPT !.pc = "audit"]
  /\ UNCHANGED <<fs, statusJson, clock, pfVars, clVars, invVars, webVars>>

\* line 508 awaits runCommand (258-309), whose promise resolves on the
\* child's error or close event and on nothing else
RunAudit ==
  /\ run.pc = "audit"
  /\ fs.auditCloses
  /\ run' = [auditStep(fs, run) EXCEPT !.pc = "aggregate"]
  /\ UNCHANGED <<fs, statusJson, clock, pfVars, clVars, invVars, webVars>>

RunAggregate ==
  /\ run.pc = "aggregate"
  /\ run' = [run EXCEPT !.pc = "write", !.status = statusOf(run, clock)]
  /\ clock' = clock + 1
  /\ UNCHANGED <<fs, statusJson, pfVars, clVars, invVars, webVars>>

\* lines 521-526: the snapshot is written and the exit code set
RunWrite ==
  /\ run.pc = "write"
  /\ ~fs.writeFails
  /\ statusJson' = [kind |-> "json", value |-> run.status]
  /\ run' = [run EXCEPT !.pc = "exit",
                        !.exitCode = IF run.status.overall = "red" THEN 1 ELSE 0]
  /\ UNCHANGED <<fs, clock, pfVars, clVars, invVars, webVars>>

\* lines 529-533: mkdir or writeFile rejects, run().catch sets the exit code
RunWriteFails ==
  /\ run.pc = "write"
  /\ fs.writeFails
  /\ run' = [run EXCEPT !.pc = "failed", !.exitCode = 1]
  /\ UNCHANGED <<fs, statusJson, clock, pfVars, clVars, invVars, webVars>>

\* line 529: the script is run again on the same files; status.json stays as
\* the previous run left it
RunAgain ==
  /\ run.pc \in {"exit", "failed"}
  /\ clock <= MaxRuns
  /\ run' = NewRun
  /\ UNCHANGED <<fs, statusJson, clock, pfVars, clVars, invVars, webVars>>

RunNext ==
  \/ RunStructure \/ RunDigest \/ RunPin \/ RunAlign \/ RunAudit
  \/ RunAggregate \/ RunWrite \/ RunWriteFails \/ RunAgain

(***************************************************************************)
(* packages/sdk/index.js: GuardedXrplClient.                               *)
(***************************************************************************)
\* a normalized mode as the string value handed on
ModeValue(mode) == StrMode(Chars(mode))

\* the constructor, lines 235-242
newGuardedXrplClient(options) ==
  LET mode == normalizeMode(options.mode)
  IN  [mode |-> mode,
       guardrails |-> Spread(options, [mode |-> ModeValue(mode)])]

\* the guarded methods call ensureGuardrails() with no overrides
NoOverrides == <<>>

\* mutant of ensureGuardrails: the posture met at construction is reused
ensureGuardrails_atConstruction(this, overrides, env) ==
  assertGuardrails(
    Spread(Spread(this.guardrails, overrides),
           [mode |-> ModeValue(normalizeMode(
                       IF "mode" \in DOMAIN overrides /\ overrides.mode # UndefinedMode
                       THEN overrides.mode ELSE ModeValue(this.mode)))]),
    builtIn)

\* ensureGuardrails(overrides), lines 244-250
ensureGuardrails(this, overrides, env) ==
  assertGuardrails(
    Spread(Spread(this.guardrails, overrides),
           [mode |-> ModeValue(normalizeMode(
                       IF "mode" \in DOMAIN overrides /\ overrides.mode # UndefinedMode
                       THEN overrides.mode ELSE ModeValue(this.mode)))]),
    env)

\* preflight(overrides), lines 252-258
preflight(this, overrides, env) ==
  preflightGuardrails(
    Spread(Spread(this.guardrails, overrides),
           [mode |-> ModeValue(normalizeMode(
                       IF "mode" \in DOMAIN overrides /\ overrides.mode # UndefinedMode
                       THEN overrides.mode ELSE ModeValue(this.mode)))]),
    env)

\* mutant of thisAfter: the overrides of the call are kept on the client
thisAfter_overridesKept(this, overrides) ==
  LET guardrails == Spread(this.guardrails, overrides)
  IN  [mode |-> normalizeMode(guardrails.mode),
       guardrails |-> [guardrails EXCEPT !.mode = ModeValue(normalizeMode(guardrails.mode))]]

\* the client after ensureGuardrails(overrides) or preflight(overrides): both
\* build a new options object (245-249, 253-257) and assign to no field of this
thisAfter(this, overrides) == this

\* this.client.<method>(args): the invocation the underlying client sees
underlyingCall(method, args) == [method |-> method, args |-> args]

\* mutant of submit: a failure of the underlying submit is swallowed
submit_swallowsFailure(gate, inner) ==
  IF gate.kind # "return"
  THEN gate
  ELSE IF inner.kind = "throw" THEN Return("undefined") ELSE inner

\* autofill, submit, submitAndWait (lines 276-289): what the method's promise
\* settles to, given what `await this.ensureGuardrails()` gave and, when the
\* method went on, what the underlying method's promise settled to
autofill(gate, inner) == IF gate.kind # "return" THEN gate ELSE inner

submit(gate, inner) == IF gate.kind # "return" THEN gate ELSE inner

submitAndWait(gate, inner) == IF gate.kind # "return" THEN gate ELSE inner

GuardedMethods == {"autofill", "submit", "submitAndWait"}

guardedMethod(method, gate, inner) ==
  CASE method = "autofill" -> autofill(gate, inner)
    [] method = "submit" -> submit(gate, inner)
    [] method = "submitAndWait" -> submitAndWait(gate, inner)

(***************************************************************************)
(* Inputs of the guarded client.                                           *)
(***************************************************************************)
GreenBody ==
  [overall |-> "green",
   checks |-> <<[name |-> "xrpl pin", status |-> "pass", details |-> Null]>>]

RedBody ==
  [overall |-> "red",
   checks |-> <<[name |-> "npm audit policy", status |-> "fail",
                 details |-> Some("critical=1")]>>]

\* a well-formed snapshot whose overall does not follow from its checks: the
\* endpoint is remote and status.json is a file anyone can write
InconsistentBody ==
  [overall |-> "green",
   checks |-> <<[name |-> "npm audit policy", status |-> "fail",
                 details |-> Some("critical=1")]>>]

\* what the endpoint answers, how the script ends and what the status file
\* holds afterwards
Postures ==
  {[net |-> [kind |-> "response", status |-> 200, body |-> GreenBody],
    exec |-> Null, file |-> [kind |-> "json", value |-> GreenBody]],
   [net |-> [kind |-> "response", status |-> 500, body |-> RedBody],
    exec |-> Some(ExecMessage), file |-> [kind |-> "json", value |-> RedBody]],
   [net |-> [kind |-> "response", status |-> 200,
             body |-> [overall |-> "red", checks |-> <<>>]],
    exec |-> Null,
    file |-> [kind |-> "json", value |-> [overall |-> "red", checks |-> <<>>]]],
   [net |-> [kind |-> "unreachable"],
    exec |-> Some(ExecMessage), file |-> [kind |-> "enoent"]],
   [net |-> [kind |-> "hang"],
    exec |-> Null, file |-> [kind |-> "badjson"]],
   [net |-> [kind |-> "response", status |-> 500, body |-> RouteErrorBody],
    exec |-> Some(ExecMessage), file |-> [kind |-> "json", value |-> RouteErrorBody]]}

WorldOf(installed, posture) ==
  [installed |-> installed, net |-> posture.net, exec |-> posture.exec, file |-> posture.file]

\* the options a client is constructed with and the xrpl version installed
Deployments ==
  {[options |-> [DefaultOptions EXCEPT !.mode = StrMode(Chars("enforced")),
                                       !.preflightEndpoint = Some(GoodEndpoint)],
    installed |-> Some("2.14.0")],
   [options |-> [DefaultOptions EXCEPT !.mode = StrMode(<<" ","B","y","p","a","s","s"," ">>),
                                       !.preflightEndpoint = Some(GoodEndpoint)],
    installed |-> Some("2.14.0")],
   [options |-> [DefaultOptions EXCEPT !.mode = StrMode(Chars("enforced"))],
    installed |-> Some("2.14.0")],
   [options |-> [DefaultOptions EXCEPT !.mode = StrMode(Chars("bypass"))],
    installed |-> Some("2.14.0")],
   [options |-> [DefaultOptions EXCEPT !.preflightEndpoint = Some(GoodEndpoint),
                                       !.expectedXrplVersion = Some("2.14.0")],
    installed |-> Some("2.13.0")],
   [options |-> [DefaultOptions EXCEPT !.mode = StrMode(Chars("bypass")),
                                       !.preflightEndpoint = Some(GoodEndpoint),
                                       !.expectedXrplVersion = Some("2.14.0"),
                                       !.timeoutMs = <<0>>],
    installed |-> Some("2.14.0")]}

Callers == {"a", "b"}

\* the transaction each caller passes
Args == [a |-> "tx of a", b |-> "tx of b"]

\* what the underlying xrpl.Client method settles to
UnderlyingResults(method, args) ==
  {Return("result of " \o method \o "(" \o args \o ")"),
   Throw(ErrorOf("XrplError", method \o " failed"))}

(***************************************************************************)
(* Guarded calls, one await at a time.                                     *)
(***************************************************************************)
NoCall ==
  [pc |-> "idle", method |-> "none", args |-> "none", overrides |-> NoOverrides,
   seen |-> NoValue, gate |-> NoValue,
   invocations |-> <<>>, inner |-> NoValue, result |-> NoValue]

ClIdle ==
  /\ client = newGuardedXrplClient(DefaultOptions)
  /\ world = DefaultEnv
  /\ builtIn = DefaultEnv
  /\ calls = [c \in Callers |-> NoCall]
  /\ started = 0

ClInit ==
  /\ \E d \in Deployments, posture \in Postures :
       /\ client = newGuardedXrplClient(d.options)
       /\ world = WorldOf(d.installed, posture)
  /\ builtIn = world
  /\ calls = [c \in Callers |-> NoCall]
  /\ started = 0

\* the posture changes; the installed module stays loaded
WorldChange ==
  /\ \E posture \in Postures :
       /\ world' = WorldOf(world.installed, posture)
       /\ world' # world
  /\ UNCHANGED <<client, builtIn, calls, started, pfVars, runVars, invVars, webVars>>

\* a caller invokes a guarded method: the method starts its preflight
ClCall(c) ==
  /\ calls[c].pc = "idle"
  /\ started < MaxCalls
  /\ \E method \in GuardedMethods :
       calls' = [calls EXCEPT ![c] = [NoCall EXCEPT !.pc = "preflight",
                                                    !.method = method,
                                                    !.args = Args[c]]]
  /\ started' = started + 1
  /\ UNCHANGED <<client, world, builtIn, pfVars, runVars, invVars, webVars>>

\* `await this.ensureGuardrails()` settles: the method rejects, or goes on
\* to invoke the underlying method
ClPreflightSettles(c) ==
  /\ calls[c].pc = "preflight"
  /\ LET gate == ensureGuardrails(client, NoOverrides, world)
         call == calls[c]
     IN  /\ gate # Pending
         /\ calls' = [calls EXCEPT ![c] =
              IF gate.kind = "return"
              THEN [call EXCEPT !.pc = "underlying", !.seen = world, !.gate = gate,
                                !.invocations =
                                   Append(@, underlyingCall(call.method, call.args))]
              ELSE [call EXCEPT !.pc = "done", !.seen = world, !.gate = gate,
                                !.result = guardedMethod(call.method, gate, NoValue)]]
  /\ UNCHANGED <<client, world, builtIn, started, pfVars, runVars, invVars, webVars>>

\* the underlying method settles and with it the guarded method
ClUnderlyingSettles(c) ==
  /\ calls[c].pc = "underlying"
  /\ LET call == calls[c]
     IN  \E inner \in UnderlyingResults(call.method, call.args) :
           calls' = [calls EXCEPT ![c] =
             [call EXCEPT !.pc = "done", !.inner = inner,
                          !.result = guardedMethod(call.method, call.gate, inner)]]
  /\ UNCHANGED <<client, world, builtIn, started, pfVars, runVars, invVars, webVars>>

\* the overrides a caller passes to ensureGuardrails or preflight
OverrideInputs ==
  {NoOverrides,
   [mode |-> StrMode(Chars("bypass"))],
   [mode |-> StrMode(Chars("enforced"))],
   [mode |-> UndefinedMode, simulateVersionMismatch |-> TRUE]}

DirectMethods == {"ensureGuardrails", "preflight"}

\* a client with an endpoint, enforced or bypass, under a green or a red
\* posture or one whose overall does not follow from its checks
ClOverridesInit ==
  /\ \E mode \in {"enforced", "bypass"},
        body \in {GreenBody, RedBody, InconsistentBody} :
       /\ client = newGuardedXrplClient(
                     [DefaultOptions EXCEPT !.mode = StrMode(Chars(mode)),
                                            !.preflightEndpoint = Some(GoodEndpoint)])
       /\ world = [DefaultEnv EXCEPT
                     !.net = [kind |-> "response", status |-> 200, body |-> body]]
  /\ builtIn = world
  /\ calls = [c \in Callers |-> NoCall]
  /\ started = 0

\* the endpoint answers with another snapshot from now on
PostureTurns ==
  /\ \E body \in {GreenBody, RedBody, InconsistentBody} :
       /\ world' = [world EXCEPT !.net.body = body]
       /\ world' # world
  /\ UNCHANGED <<client, builtIn, calls, started, pfVars, runVars, invVars, webVars>>

\* a caller invokes client.ensureGuardrails(overrides) or
\* client.preflight(overrides)
ClCallDirect(c) ==
  /\ calls[c].pc = "idle"
  /\ started < MaxCalls
  /\ \E method \in DirectMethods, overrides \in OverrideInputs :
       calls' = [calls EXCEPT ![c] = [NoCall EXCEPT !.pc = "direct",
                                                    !.method = method,
                                                    !.overrides = overrides]]
  /\ started' = started + 1
  /\ UNCHANGED <<client, world, builtIn, pfVars, runVars, invVars, webVars>>

\* the promise of the direct call settles
ClDirectSettles(c) ==
  /\ calls[c].pc = "direct"
  /\ LET call == calls[c]
         result == IF call.method = "ensureGuardrails"
                   THEN ensureGuardrails(client, call.overrides, world)
                   ELSE preflight(client, call.overrides, world)
     IN  /\ result # Pending
         /\ calls' = [calls EXCEPT ![c] =
                        [call EXCEPT !.pc = "done", !.seen = world, !.result = result]]
         /\ client' = thisAfter(client, call.overrides)
  /\ UNCHANGED <<world, builtIn, started, pfVars, runVars, invVars, webVars>>

\* the caller takes the result
ClCollect(c) ==
  /\ calls[c].pc = "done"
  /\ calls' = [calls EXCEPT ![c] = NoCall]
  /\ UNCHANGED <<client, world, builtIn, started, pfVars, runVars, invVars, webVars>>

(***************************************************************************)
(* Preflight invocations: POST of api/preflight/route.ts and               *)
(* runScriptPreflight of the SDK.  Each starts `node scripts/preflight.ts` *)
(* as a child process and reads apps/web/public/status.json afterwards.    *)
(***************************************************************************)
Invokers == {"p", "q"}

\* what a caller can ask for: the mode and the simulate directive travel in
\* the query string of the request (index.js 125-129) or are options of the
\* script-mode call
Requests ==
  {[kind |-> "endpoint", mode |-> m, simulate |-> sim] :
      m \in {"enforced", "bypass"}, sim \in BOOLEAN}
    \cup {[kind |-> "sdk", mode |-> m, simulate |-> FALSE] : m \in {"enforced", "bypass"}}

IdleInv ==
  [pc |-> "idle", request |-> NoValue, produced |-> NoValue,
   executionError |-> Null, response |-> NoValue]

\* the snapshot run() builds over fs at time now (lines 401-519)
scriptSnapshot(files, now) ==
  statusOf(
    auditStep(files, alignStep(files, pinStep(files, digestStep(files,
      [NewRun EXCEPT !.checks = structureChecks(files)])))),
    now)

\* route.ts 53-64: the response from what reading status.json gives
routeResponse(fileRead) ==
  IF fileRead.kind = "json"
  THEN [kind |-> "http",
        code |-> IF fileRead.value.overall = "green" THEN 200 ELSE 500,
        body |-> fileRead.value]
  ELSE [kind |-> "http", code |-> 500, body |-> RouteErrorBody]

\* POST() has no parameter: nothing of the request reaches the handler
POST(request, fileRead) == routeResponse(fileRead)

InvIdle == inv = [i \in Invokers |-> IdleInv]

\* a repository that is green, yellow or red, or where the snapshot cannot
\* be written
AuditReport(meta, exitCode) ==
  [spawnError |-> Null, exitCode |-> <<exitCode>>,
   stdout |-> [kind |-> "json", value |-> AuditJson(meta)],
   stderr |-> EmptyText]

GreenFs ==
  [CleanFs EXCEPT !.audit =
     AuditReport([critical |-> 0, high |-> 0, moderate |-> 0, low |-> 0], 0)]

InvFsInputs ==
  {GreenFs,
   [GreenFs EXCEPT !.audit =
      AuditReport([critical |-> 0, high |-> 0, moderate |-> 1, low |-> 0], 1)],
   [GreenFs EXCEPT !.manifest = [exists |-> TRUE,
                                 json |-> [dependencies |-> [xrpl |-> V2130]]]],
   [GreenFs EXCEPT !.writeFails = TRUE]}

InvInit ==
  /\ InvIdle
  /\ fs \in InvFsInputs
  /\ run = [NewRun EXCEPT !.pc = "off"]
  /\ statusJson = [kind |-> "enoent"]
  /\ clock = 1

\* the repository changes between and during invocations
InvFsChange ==
  /\ \E i \in Invokers : inv[i].pc # "done"
  /\ fs' \in InvFsInputs \ {fs}
  /\ UNCHANGED <<run, statusJson, clock, inv, pfVars, clVars, webVars>>

\* a request arrives (route.ts 41) or runScriptPreflight is called
\* (index.js 163): the child process is started
InvRequest(i) ==
  /\ inv[i].pc = "idle"
  /\ \E request \in Requests :
       inv' = [inv EXCEPT ![i] = [IdleInv EXCEPT !.pc = "script", !.request = request]]
  /\ UNCHANGED <<runVars, pfVars, clVars, webVars>>

\* the child runs the script to its end: status.json is written and the exit
\* code is 1 when overall is red, which rejects execFileAsync
InvScriptWrites(i) ==
  /\ inv[i].pc = "script"
  /\ fs.auditCloses
  /\ ~fs.writeFails
  /\ LET snapshot == scriptSnapshot(fs, clock)
     IN  /\ statusJson' = [kind |-> "json", value |-> snapshot]
         /\ inv' = [inv EXCEPT ![i] =
                      [@ EXCEPT !.pc = "read",
                                !.produced = snapshot,
                                !.executionError =
                                   IF snapshot.overall = "red"
                                   THEN Some(ExecMessage) ELSE Null]]
  /\ clock' = clock + 1
  /\ UNCHANGED <<fs, run, pfVars, clVars, webVars>>

\* the child fails before it has written status.json
InvScriptFails(i) ==
  /\ inv[i].pc = "script"
  /\ fs.auditCloses
  /\ fs.writeFails
  /\ inv' = [inv EXCEPT ![i] =
               [@ EXCEPT !.pc = "read", !.executionError = Some(ExecMessage)]]
  /\ clock' = clock + 1
  /\ UNCHANGED <<fs, run, statusJson, pfVars, clVars, webVars>>

\* status.json is read and the invocation answers: route.ts 53-64 and
\* index.js 177-208
InvRespond(i) ==
  /\ inv[i].pc = "read"
  /\ inv' = [inv EXCEPT ![i] =
               [@ EXCEPT !.pc = "done",
                         !.response =
                            IF inv[i].request.kind = "endpoint"
                            THEN POST(inv[i].request, statusJson)
                            ELSE runScriptPreflight(inv[i].request.mode, DefaultOptions,
                                                    inv[i].executionError, statusJson)]]
  /\ UNCHANGED <<runVars, pfVars, clVars, webVars>>

InvNext ==
  \/ InvFsChange
  \/ \E i \in Invokers :
       InvRequest(i) \/ InvScriptWrites(i) \/ InvScriptFails(i) \/ InvRespond(i)

(***************************************************************************)
(* The web helpers that normalise a mode (apps/web/app/lib/guardrailsMode  *)
(* and the demo page), next to the SDK's normalizeMode.                    *)
(***************************************************************************)
\* localStorage.getItem of a key that is not set
NullMode == [type |-> "null"]

\* the mode a string of the type GuardrailsMode names
ModeOf(chars) ==
  IF chars = <<"b","y","p","a","s","s">> THEN "bypass" ELSE "enforced"

isGuardrailsMode(value) ==
  /\ value.type = "string"
  /\ \/ value.chars = <<"e","n","f","o","r","c","e","d">>
     \/ value.chars = <<"b","y","p","a","s","s">>

normalizeGuardrailsMode(value) ==
  IF isGuardrailsMode(value) THEN ModeOf(value.chars) ELSE "enforced"

\* hasWindow: typeof window !== "undefined"
readGuardrailsModeFromStorage(hasWindow, item) ==
  IF ~hasWindow THEN "enforced" ELSE normalizeGuardrailsMode(item)

\* the demo page's own reader of the stored mode
getInitialMode(hasWindow, item) ==
  IF ~hasWindow
  THEN "enforced"
  ELSE IF item = StrMode(<<"b","y","p","a","s","s">>) THEN "bypass" ELSE "enforced"

\* the values a mode is given as
ModeCases ==
  {UndefinedMode, NullMode, [type |-> "number"]} \cup
  {StrMode(chars) : chars \in
     {<<"b","y","p","a","s","s">>,
      <<"e","n","f","o","r","c","e","d">>,
      <<" ","B","y","p","a","s","s"," ">>,
      <<"B","Y","P","A","S","S">>,
      <<"b","y","p","a","s","s"," ">>,
      <<"E","n","f","o","r","c","e","d">>,
      <<"e","n","f","o","r","c","e">>,
      <<"e","f","o","r","c","e">>,
      <<"b","y"," ","p","a","s","s">>,
      <<"b","y","p","a","s">>,
      <<"b","y","p","a","s","s","e","d">>,
      <<"o","f","f">>,
      <<"t","r","u","e">>,
      <<" ">>,
      <<>>}}

\* what localStorage can hold under a key: a string or nothing
StorageItems == {v \in ModeCases : v.type \in {"string", "null"}}

IdleNorm ==
  [given |-> UndefinedMode, hasWindow |-> FALSE, sdk |-> Null, web |-> Null,
   stored |-> Null, initial |-> Null, sdkAgain |-> Null, webAgain |-> Null]

NormIdle == norm = IdleNorm

NormInit ==
  \E given \in ModeCases, hasWindow \in BOOLEAN :
    norm = [IdleNorm EXCEPT !.given = given, !.hasWindow = hasWindow]

NormSdk ==
  /\ norm.sdk = Null
  /\ norm' = [norm EXCEPT !.sdk = Some(normalizeMode(norm.given))]
  /\ UNCHANGED <<processEnv, storage, home, demo, transfer, pfVars, runVars, clVars, invVars>>

NormWeb ==
  /\ norm.web = Null
  /\ norm' = [norm EXCEPT !.web = Some(normalizeGuardrailsMode(norm.given))]
  /\ UNCHANGED <<processEnv, storage, home, demo, transfer, pfVars, runVars, clVars, invVars>>

NormRead ==
  /\ norm.stored = Null
  /\ norm.given \in StorageItems
  /\ norm' = [norm EXCEPT
                !.stored = Some(readGuardrailsModeFromStorage(norm.hasWindow, norm.given))]
  /\ UNCHANGED <<processEnv, storage, home, demo, transfer, pfVars, runVars, clVars, invVars>>

NormInitial ==
  /\ norm.initial = Null
  /\ norm.given \in StorageItems
  /\ norm' = [norm EXCEPT
                !.initial = Some(getInitialMode(norm.hasWindow, norm.given))]
  /\ UNCHANGED <<processEnv, storage, home, demo, transfer, pfVars, runVars, clVars, invVars>>

\* the mode a normaliser returned, normalised once more
NormSdkAgain ==
  /\ norm.sdk # Null
  /\ norm.sdkAgain = Null
  /\ norm' = [norm EXCEPT !.sdkAgain = Some(normalizeMode(ModeValue(norm.sdk[1])))]
  /\ UNCHANGED <<processEnv, storage, home, demo, transfer, pfVars, runVars, clVars, invVars>>

NormWebAgain ==
  /\ norm.web # Null
  /\ norm.webAgain = Null
  /\ norm' = [norm EXCEPT
                !.webAgain = Some(normalizeGuardrailsMode(ModeValue(norm.web[1])))]
  /\ UNCHANGED <<processEnv, storage, home, demo, transfer, pfVars, runVars, clVars, invVars>>

NormNext ==
  NormSdk \/ NormWeb \/ NormRead \/ NormInitial \/ NormSdkAgain \/ NormWebAgain

(***************************************************************************)
(* The mode toggle (components/GuardrailsToggle.tsx) and the three pages   *)
(* that render it: the home page, the demo page and the transfer page.     *)
(***************************************************************************)
\* a string item of localStorage
Item(chars) == StrMode(chars)

isBypassAllowed(e) ==
  LET allowBypass == e.NEXT_PUBLIC_DEMO_ALLOW_BYPASS = Some("true")
      isProduction == e.NODE_ENV = "production"
  IN  allowBypass /\ ~isProduction

\* allowed ?? isBypassAllowed(): props.allowed is Null when the page does
\* not pass it
bypassAllowed(props, e) ==
  IF props.allowed # Null THEN props.allowed[1] ELSE isBypassAllowed(e)

\* handleToggle: the value handed to onChange, or nothing
handleToggle(props, e) ==
  IF bypassAllowed(props, e) THEN Some(~props.value) ELSE Null

\* the builds of the web application
Builds ==
  [NODE_ENV : {"production", "development"},
   NEXT_PUBLIC_DEMO_ALLOW_BYPASS : {Null, Some("true"), Some("false")}]

\* the home page (app/page.tsx)
getInitialGuardrailsEnabled(hasWindow, item) ==
  IF ~hasWindow THEN TRUE ELSE item # Item(<<"t","r","u","e">>)

\* String(!next)
StringOfBoolean(b) ==
  IF b THEN Item(<<"t","r","u","e">>) ELSE Item(<<"f","a","l","s","e">>)

\* the snapshot of a repository with a moderate advisory
YellowBody ==
  [overall |-> "yellow",
   checks |-> <<[name |-> "npm audit policy", status |-> "warn",
                 details |-> Some("moderate=1")]>>]

\* what the page's own endpoint answers (route.ts), or no answer at all
PreflightResponses ==
  {routeResponse([kind |-> "json", value |-> body]) :
     body \in {GreenBody, YellowBody, RedBody}} \cup
  {routeResponse([kind |-> "enoent"]), [kind |-> "unreachable"]}

\* what fetching /status.json gives
StatusJsonReads ==
  {[kind |-> "json", value |-> body] : body \in {GreenBody, YellowBody, RedBody}} \cup
  {[kind |-> "enoent"]}

\* isStatusPayload of the transfer page: overall is one of the three values
\* and checks is an array
transferIsStatusPayload(value) ==
  /\ "overall" \in DOMAIN value
  /\ value.overall \in {"green", "yellow", "red"}
  /\ "checks" \in DOMAIN value

readStatusFromStatusJson(read) ==
  IF read.kind = "json" /\ transferIsStatusPayload(read.value)
  THEN Some(read.value)
  ELSE Null

getFailingChecks(status) ==
  IF status = Null
  THEN <<>>
  ELSE SelectSeq(status[1].checks, LAMBDA check : check.status = "fail")

\* Response.ok
ResponseOk(response) == response.code \in 200..299

\* runPreflightForMode (transfer/page.tsx 156-217): the outcome from the
\* endpoint's response and from what /status.json gives afterwards
runPreflightForMode(response, read) ==
  IF response.kind = "unreachable"
  THEN [overall |-> "red", failingChecks |-> <<>>]
  ELSE LET preflightStatus ==
             IF transferIsStatusPayload(response.body) THEN Some(response.body) ELSE Null
           latestStatus == readStatusFromStatusJson(read)
           resolvedStatus == Coalesce(latestStatus, preflightStatus)
           overall ==
             IF ~ResponseOk(response)
             THEN "red"
             ELSE IF resolvedStatus # Null THEN resolvedStatus[1].overall ELSE "red"
       IN  [overall |-> overall, failingChecks |-> getFailingChecks(resolvedStatus)]

\* sendDisabled (transfer/page.tsx 315-316)
sendDisabled(t) ==
  t.sending \/ t.runningPreflight \/ (t.mode = "enforced" /\ t.sendLocked)

\* most requests the transfer page sends to /api/transfer in one behaviour
MaxSends == 2

NoTask == [kind |-> "none"]

\* the transfer page as it mounts: call is the handler in flight with the
\* mode it captured, lastPreflight the last preflight that resolved and
\* sent the requests made to /api/transfer
NewTransferPage(mode) ==
  [mode |-> mode, sending |-> FALSE, runningPreflight |-> FALSE,
   sendLocked |-> FALSE, lastPreflightOverall |-> Null,
   call |-> NoTask, lastPreflight |-> NoValue, sent |-> <<>>]

NoStorage == [guardrails_mode |-> NullMode, guardrails_bypass |-> NullMode]

PagesIdle ==
  /\ processEnv = [NODE_ENV |-> "development", NEXT_PUBLIC_DEMO_ALLOW_BYPASS |-> Null]
  /\ storage = NoStorage
  /\ home = [guardrailsEnabled |-> TRUE]
  /\ demo = [guardrailsMode |-> "enforced"]
  /\ transfer = NewTransferPage("enforced")

WebIdle == NormIdle /\ PagesIdle

\* the pages mount in a browser: each reads its initial state from
\* localStorage
PagesMount ==
  /\ home = [guardrailsEnabled |->
               getInitialGuardrailsEnabled(TRUE, storage.guardrails_bypass)]
  /\ demo = [guardrailsMode |-> getInitialMode(TRUE, storage.guardrails_mode)]
  /\ transfer =
       NewTransferPage(readGuardrailsModeFromStorage(TRUE, storage.guardrails_mode))

StoredModes ==
  {NullMode, Item(<<"b","y","p","a","s","s">>),
   Item(<<"e","n","f","o","r","c","e","d">>), Item(<<"B","Y","P","A","S","S">>)}

TogglesInit ==
  /\ processEnv \in Builds
  /\ storage \in [guardrails_mode : StoredModes,
                  guardrails_bypass : {NullMode, Item(<<"t","r","u","e">>)}]
  /\ PagesMount

TransferInit ==
  /\ processEnv \in {e \in Builds : /\ e.NODE_ENV = "production"
                                     /\ e.NEXT_PUBLIC_DEMO_ALLOW_BYPASS # Some("false")}
  /\ storage \in [guardrails_mode : StoredModes, guardrails_bypass : {NullMode}]
  /\ PagesMount

\* a click on the home page's toggle: handleToggle, then
\* updateGuardrailsEnabled
HomeToggle ==
  LET next == handleToggle([value |-> home.guardrailsEnabled, allowed |-> Null], processEnv)
  IN  /\ IF next # Null
         THEN /\ home' = [guardrailsEnabled |-> next[1]]
              /\ storage' = [storage EXCEPT !.guardrails_bypass = StringOfBoolean(~next[1])]
         ELSE UNCHANGED <<home, storage>>
      /\ UNCHANGED <<processEnv, demo, transfer, norm, pfVars, runVars, clVars, invVars>>

\* a click on the demo page's toggle: handleToggle, then updateMode
DemoToggle ==
  LET next == handleToggle([value |-> demo.guardrailsMode = "enforced",
                            allowed |-> Some(TRUE)], processEnv)
  IN  /\ IF next # Null
         THEN LET nextMode == IF next[1] THEN "enforced" ELSE "bypass"
              IN  /\ demo' = [guardrailsMode |-> nextMode]
                  /\ storage' = [storage EXCEPT !.guardrails_mode = ModeValue(nextMode)]
         ELSE UNCHANGED <<demo, storage>>
      /\ UNCHANGED <<processEnv, home, transfer, norm, pfVars, runVars, clVars, invVars>>

\* updateMode of the transfer page
updateMode(t, nextMode) ==
  [t EXCEPT !.mode = nextMode,
            !.sendLocked = IF nextMode = "bypass" THEN FALSE ELSE @]

\* a click on the transfer page's toggle
TransferToggle ==
  LET next == handleToggle([value |-> transfer.mode = "enforced",
                            allowed |-> Some(TRUE)], processEnv)
  IN  /\ IF next # Null
         THEN LET nextMode == IF next[1] THEN "enforced" ELSE "bypass"
              IN  /\ transfer' = updateMode(transfer, nextMode)
                  /\ storage' = [storage EXCEPT !.guardrails_mode = ModeValue(nextMode)]
         ELSE UNCHANGED <<transfer, storage>>
      /\ UNCHANGED <<processEnv, home, demo, norm, pfVars, runVars, clVars, invVars>>

\* a click on Send: sendTransfer as far as its first await, with the mode of
\* the render the click happened in (the amount is valid)
TransferSendClick ==
  /\ ~sendDisabled(transfer)
  /\ Len(transfer.sent) < MaxSends
  /\ transfer' = [transfer EXCEPT
                    !.sending = TRUE,
                    !.call = [kind |-> "send", mode |-> transfer.mode, pc |-> "preflight"]]
  /\ UNCHANGED <<processEnv, storage, home, demo, norm, pfVars, runVars, clVars, invVars>>

\* a click on Re-run preflight: rerunPreflight as far as its first await
TransferRerunClick ==
  /\ ~(transfer.sending \/ transfer.runningPreflight)
  /\ transfer' = [transfer EXCEPT
                    !.runningPreflight = TRUE,
                    !.call = [kind |-> "rerun", mode |-> transfer.mode, pc |-> "preflight"]]
  /\ UNCHANGED <<processEnv, storage, home, demo, norm, pfVars, runVars, clVars, invVars>>

\* the page after the preflight of the handler in flight has resolved: the
\* handler blocks, or it goes on and, in sendTransfer, posts to /api/transfer
afterPreflight(t, response, read) ==
  LET call == t.call
      outcome == runPreflightForMode(response, read)
      blocks == call.mode = "enforced" /\ outcome.overall = "red"
      seen == [t EXCEPT
                 !.lastPreflightOverall = Some(outcome.overall),
                 !.lastPreflight = [response |-> response, read |-> read,
                                    overall |-> outcome.overall,
                                    mode |-> call.mode, blocked |-> blocks]]
      ended == [seen EXCEPT
                  !.sending = IF call.kind = "send" THEN FALSE ELSE @,
                  !.runningPreflight = IF call.kind = "rerun" THEN FALSE ELSE @,
                  !.call = NoTask]
  IN  IF blocks
      THEN [ended EXCEPT !.sendLocked = TRUE]
      ELSE IF call.kind = "rerun"
           THEN [ended EXCEPT !.sendLocked = FALSE]
           ELSE [seen EXCEPT
                   !.sendLocked = FALSE,
                   !.call = [call EXCEPT !.pc = "transfer"],
                   !.sent = Append(@, [mode |-> call.mode,
                                       selected |-> t.mode,
                                       preflight |-> outcome.overall])]

TransferPreflightSettles ==
  /\ transfer.call.kind \in {"send", "rerun"}
  /\ transfer.call.pc = "preflight"
  /\ \E response \in PreflightResponses, read \in StatusJsonReads :
       transfer' = afterPreflight(transfer, response, read)
  /\ UNCHANGED <<processEnv, storage, home, demo, norm, pfVars, runVars, clVars, invVars>>

\* /api/transfer answers (or fails): sendTransfer ends
TransferSettles ==
  /\ transfer.call.kind = "send"
  /\ transfer.call.pc = "transfer"
  /\ transfer' = [transfer EXCEPT !.sending = FALSE, !.call = NoTask]
  /\ UNCHANGED <<processEnv, storage, home, demo, norm, pfVars, runVars, clVars, invVars>>

vars == <<pfVars, runVars, clVars, invVars, webVars>>

(***************************************************************************)
(* The specifications.                                                     *)
(***************************************************************************)
InitPreflight == PfInit /\ RunIdle /\ ClIdle /\ InvIdle /\ WebIdle

PfNext == PfCallPreflight \/ PfCallAssert \/ PfReset

SpecPreflight == InitPreflight /\ [][PfNext]_vars

\* a run in a clean repository, over every audit output
RunAuditInit ==
  /\ fs \in AuditFsInputs
  /\ run = NewRun
  /\ statusJson = [kind |-> "enoent"]
  /\ clock = 1

InitAudit == PfInit /\ RunAuditInit /\ ClIdle /\ InvIdle /\ WebIdle

SpecAudit == InitAudit /\ [][RunNext]_vars

InitRun == PfInit /\ RunInit /\ ClIdle /\ InvIdle /\ WebIdle

SpecRun == InitRun /\ [][RunNext]_vars

\* runs of a repository whose other checks pass, with an audit subprocess
\* that closes or does not
RunWaitInit ==
  /\ fs \in {f \in FsInputs :
              /\ f.hasRootLockfile = CleanFs.hasRootLockfile
              /\ f.hasWebDir = CleanFs.hasWebDir
              /\ f.hasWebLockfile = CleanFs.hasWebLockfile
              /\ f.lockfile = CleanFs.lockfile
              /\ f.manifest = CleanFs.manifest}
  /\ run = NewRun
  /\ statusJson = [kind |-> "enoent"]
  /\ clock = 1

InitRunFair == PfInit /\ RunWaitInit /\ ClIdle /\ InvIdle /\ WebIdle

\* the event loop runs every step that is ready
SpecRunFair == InitRunFair /\ [][RunNext]_vars /\ WF_vars(RunNext)

InitInvocations == PfInit /\ InvInit /\ ClIdle /\ WebIdle

SpecInvocations == InitInvocations /\ [][InvNext]_vars

InitOverrides == PfInit /\ RunIdle /\ ClOverridesInit /\ InvIdle /\ WebIdle

NextOverrides ==
  \/ PostureTurns
  \/ \E c \in Callers :
       \/ ClCall(c) \/ ClPreflightSettles(c) \/ ClUnderlyingSettles(c)
       \/ ClCallDirect(c) \/ ClDirectSettles(c) \/ ClCollect(c)

SpecOverrides == InitOverrides /\ [][NextOverrides]_vars

InitMode == PfInit /\ RunIdle /\ ClIdle /\ InvIdle /\ NormInit /\ PagesIdle

SpecMode == InitMode /\ [][NormNext]_vars

InitToggles == PfInit /\ RunIdle /\ ClIdle /\ InvIdle /\ NormIdle /\ TogglesInit

NextToggles == HomeToggle \/ DemoToggle \/ TransferToggle

SpecToggles == InitToggles /\ [][NextToggles]_vars

InitTransfer == PfInit /\ RunIdle /\ ClIdle /\ InvIdle /\ NormIdle /\ TransferInit

NextTransfer ==
  \/ TransferToggle
  \/ TransferSendClick
  \/ TransferRerunClick
  \/ TransferPreflightSettles
  \/ TransferSettles

SpecTransfer == InitTransfer /\ [][NextTransfer]_vars

Init == PfInit /\ RunIdle /\ ClInit /\ InvIdle /\ WebIdle

Next ==
  \/ WorldChange
  \/ \E c \in Callers :
       ClCall(c) \/ ClPreflightSettles(c) \/ ClUnderlyingSettles(c) \/ ClCollect(c)

Spec == Init /\ [][Next]_vars

(***************************************************************************)
(* Claims about the outcome of a standalone preflight.                     *)
(***************************************************************************)
\* the body the call consumed: the endpoint's answer or the status file
PfBody ==
  IF Truthy(pfInput.options.preflightEndpoint)
  THEN pfInput.env.net.body
  ELSE pfInput.env.file.value

PfReturned == pfPc = "done" /\ pfPreflight.kind = "return"

\* C2: every outcome preflightGuardrails returns, from the HTTP source or the
\* script source, has blocked true iff its mode is enforced and its overall
\* is red, where mode is the caller's normalized mode and overall the
\* overall of the body consumed; a bypass outcome is never blocked.
C2_BlockedIffEnforcedRed ==
  PfReturned =>
    LET o == pfPreflight.value
    IN  /\ o.mode = normalizeMode(pfInput.options.mode)
        /\ o.overall = PfBody.overall
        /\ o.source \in {"http", "script"}
        /\ o.blocked = (o.mode = "enforced" /\ o.overall = "red")
        /\ (o.mode = "bypass" => o.blocked = FALSE)

\* C2 witness: a bypass outcome over a red body, from each source
C2_Witness ==
  /\ PfReturned
  /\ pfPreflight.value.mode = "bypass"
  /\ pfPreflight.value.overall = "red"
  /\ pfPreflight.value.blocked = FALSE
  /\ pfPreflight.value.source = "http"
  /\ PfBody \in ForgedBodies

\* C5: assertGuardrails throws a GuardrailsViolationError exactly when the
\* outcome preflight produced has mode enforced and overall red, the error
\* carries that whole outcome (checks, mode, blocked, reason), and in every
\* other case the outcome itself is returned.
C5_AssertThrowsIffEnforcedRed ==
  (pfPc = "done" /\ pfCall = "assertGuardrails") =>
    /\ pfPreflight.kind = "return" =>
         LET o == pfPreflight.value
         IN  IF o.mode = "enforced" /\ o.overall = "red"
             THEN /\ pfResult.kind = "throw"
                  /\ pfResult.error.type = "GuardrailsViolationError"
                  /\ pfResult.error.outcome = o
                  /\ {"overall", "checks", "mode", "blocked", "reason"}
                       \subseteq DOMAIN pfResult.error.outcome
             ELSE pfResult = Return(o)
    /\ (pfResult.kind = "throw" /\ pfResult.error.type = "GuardrailsViolationError") =>
         /\ pfPreflight.kind = "return"
         /\ pfPreflight.value.mode = "enforced"
         /\ pfPreflight.value.overall = "red"

\* C5 witness: a violation raised over a red snapshot with two checks
C5_Witness ==
  /\ pfPc = "done"
  /\ pfCall = "assertGuardrails"
  /\ pfResult.kind = "throw"
  /\ pfResult.error.type = "GuardrailsViolationError"
  /\ Len(pfResult.error.outcome.checks) = 2
  /\ pfResult.error.outcome.blocked = TRUE

\* C9: every outcome preflightGuardrails returns, in enforced and in bypass
\* mode, has a non-null reason iff the overall of the body consumed is red.
C9_ReasonIffRed ==
  PfReturned =>
    /\ pfPreflight.value.overall = PfBody.overall
    /\ (pfPreflight.value.reason # Null) <=> (PfBody.overall = "red")

\* C9 witness: a bypass outcome of the script source that carries a reason
C9_Witness ==
  /\ PfReturned
  /\ pfPreflight.value.source = "script"
  /\ pfPreflight.value.mode = "bypass"
  /\ pfPreflight.value.overall = "red"
  /\ pfPreflight.value.reason # Null

HasFail(checks) == \E i \in 1..Len(checks) : checks[i].status = "fail"

\* the least index of a failing check
FirstFail(checks) ==
  CHOOSE i \in 1..Len(checks) :
    /\ checks[i].status = "fail"
    /\ \A j \in 1..Len(checks) : checks[j].status = "fail" => i <= j

\* a check has details when its details field is a non-empty string
HasDetails(check) == check.details # Null /\ check.details # Some("")

\* the fallback description the source hands to buildFailureReason
PfFallback ==
  IF Truthy(pfInput.options.preflightEndpoint)
  THEN "preflight returned " \o ToString(pfInput.env.net.status)
  ELSE IF pfInput.env.exec # Null
       THEN pfInput.env.exec[1]
       ELSE "Guardrails checks failed."

\* C10: when overall is red and some check has status fail, reason names the
\* first such check in sequence order, as "name (details)" when that check
\* has (non-empty) details and as "name" otherwise; the fallback description
\* is the reason only when no check has status fail.
C10_ReasonNamesFirstFailingCheck ==
  (PfReturned /\ PfBody.overall = "red") =>
    LET checks == PfBody.checks
        reason == pfPreflight.value.reason
    IN  /\ HasFail(checks) =>
             LET c == checks[FirstFail(checks)]
             IN  reason = Some(IF HasDetails(c)
                               THEN c.name \o " (" \o c.details[1] \o ")"
                               ELSE c.name)
        /\ reason = Some(PfFallback) => ~HasFail(checks)

\* C10 witness: two failing checks of different names, the first with details
C10_Witness ==
  /\ PfReturned
  /\ PfBody.overall = "red"
  /\ Len(PfBody.checks) = 2
  /\ PfBody.checks[1].status = "fail"
  /\ PfBody.checks[2].status = "fail"
  /\ PfBody.checks[1].name = "npm audit policy"
  /\ PfBody.checks[2].name = "xrpl pin"
  /\ PfBody.checks[1].details = Some("critical=1")
  /\ pfPreflight.value.reason = Some("npm audit policy (critical=1)")

(***************************************************************************)
(* Claims about a run of the script.                                       *)
(***************************************************************************)
RunCompleted == run.pc = "exit" /\ statusJson.kind = "json"

\* C1: the snapshot a completed run writes has overall red iff at least one
\* of its checks is fail, yellow iff none is fail and at least one is warn,
\* and green otherwise.
C1_OverallIsWorstStatus ==
  RunCompleted =>
    LET snapshot == statusJson.value
        anyFail == \E i \in 1..Len(snapshot.checks) : snapshot.checks[i].status = "fail"
        anyWarn == \E i \in 1..Len(snapshot.checks) : snapshot.checks[i].status = "warn"
    IN  /\ snapshot = run.status
        /\ Len(snapshot.checks) = 7
        /\ (snapshot.overall = "red") <=> anyFail
        /\ (snapshot.overall = "yellow") <=> (~anyFail /\ anyWarn)
        /\ (snapshot.overall = "green") <=> (~anyFail /\ ~anyWarn)

\* C1 witness: a snapshot with a failing check and a warning
C1_Witness ==
  /\ RunCompleted
  /\ statusJson.value.overall = "red"
  /\ statusJson.value.checks[7].status = "warn"
  /\ statusJson.value.checks[6].status = "fail"
  /\ statusJson.value.checks[5].status = "pass"

\* a yellow and a green snapshot are written too
C1_YellowWritten == RunCompleted /\ statusJson.value.overall = "yellow"

C1_GreenWritten == RunCompleted /\ statusJson.value.overall = "green"

(***************************************************************************)
(* Claims about the guarded client.                                        *)
(***************************************************************************)
ClEnforced == client.mode = "enforced"

ClRemote == Truthy(client.guardrails.preflightEndpoint)

\* the snapshot the client's source of truth holds in world w, if any
PostureIn(w) ==
  IF ClRemote
  THEN IF w.net.kind = "response" /\ isStatusPayload(w.net.body) THEN w.net.body ELSE NoValue
  ELSE IF w.file.kind = "json" /\ isStatusPayload(w.file.value) THEN w.file.value ELSE NoValue

VersionOk(w) ==
  \/ client.guardrails.expectedXrplVersion = Null
  \/ client.guardrails.expectedXrplVersion = w.installed

\* a preflight in world w can produce an outcome
HasOutcome(w) == VersionOk(w) /\ PostureIn(w) # NoValue

RedIn(w) == HasOutcome(w) /\ PostureIn(w).overall = "red"

Preflighted(c) == calls[c].seen # NoValue

IsViolation(result) ==
  result.kind = "throw" /\ result.error.type = "GuardrailsViolationError"

\* C3: a guarded call invokes the underlying method only after its own
\* preflight has settled, and never when the posture that preflight met was
\* red while the client is enforced, whatever the posture was at construction
\* or at an earlier call.
C3_FreshPreflightBeforeEveryCall ==
  \A c \in Callers :
    LET call == calls[c]
    IN  /\ call.pc = "preflight" => (~Preflighted(c) /\ call.invocations = <<>>)
        /\ call.invocations # <<>> =>
             (Preflighted(c) /\ ~(ClEnforced /\ RedIn(call.seen)))
        /\ (Preflighted(c) /\ ClEnforced /\ RedIn(call.seen)) =>
             (call.pc = "done" /\ call.invocations = <<>> /\ IsViolation(call.result))

\* C3 witness: one call was let through, a later one met a red posture and
\* was stopped, the client having been constructed under a green posture
C3_Witness ==
  /\ ClEnforced
  /\ ~RedIn(builtIn) /\ HasOutcome(builtIn)
  /\ calls["a"].pc = "done" /\ calls["a"].invocations # <<>>
  /\ calls["b"].pc = "done" /\ RedIn(calls["b"].seen) /\ calls["b"].invocations = <<>>

GateOpen(c) ==
  /\ Preflighted(c)
  /\ HasOutcome(calls[c].seen)
  /\ ~(ClEnforced /\ RedIn(calls[c].seen))

\* C4: when the preflight of a guarded call produced an outcome that does
\* not block, the underlying method is invoked exactly once, with the method
\* and the arguments of the caller, and what it settles to, value or failure,
\* is what the guarded call settles to.
C4_DelegatesOnceAndPassesThrough ==
  \A c \in Callers :
    LET call == calls[c]
    IN  GateOpen(c) =>
          /\ call.invocations = <<[method |-> call.method, args |-> Args[c]]>>
          /\ call.pc \in {"underlying", "done"}
          /\ call.pc = "underlying" => (call.inner = NoValue /\ call.result = NoValue)
          /\ call.pc = "done" =>
               (call.inner \in UnderlyingResults(call.method, Args[c])
                  /\ call.result = call.inner)

\* C4 witness: the underlying submit failed and the caller got that failure
C4_Witness ==
  \E c \in Callers :
    /\ GateOpen(c)
    /\ calls[c].pc = "done"
    /\ calls[c].method = "submit"
    /\ calls[c].inner.kind = "throw"
    /\ calls[c].result = calls[c].inner
    /\ RedIn(calls[c].seen)

PreflightErrorTypes == {"Error", "TypeError", "AbortError", "SyntaxError"}

\* C6 as stated: every finished guarded call ends with the underlying
\* method's own outcome or with a GuardrailsViolationError.
C6_OnlyViolationErrors ==
  \A c \in Callers :
    calls[c].pc = "done" =>
      \/ (calls[c].invocations # <<>> /\ calls[c].result = calls[c].inner)
      \/ IsViolation(calls[c].result)

\* C6, amended: every finished guarded call ends in one of three ways.  When
\* its preflight could not produce an outcome (version check, endpoint,
\* script or status file failed) it ends with that failure, an Error,
\* TypeError, AbortError or SyntaxError that is no GuardrailsViolationError,
\* and the underlying method is not invoked.  When the outcome is red and the
\* client enforced it ends with a GuardrailsViolationError.  Otherwise it ends
\* with the underlying method's own outcome.
C6_ViolationOrPreflightFailureOrOwnOutcome ==
  \A c \in Callers :
    LET call == calls[c]
    IN  call.pc = "done" =>
          /\ Preflighted(c)
          /\ IF ~HasOutcome(call.seen)
             THEN /\ call.result.kind = "throw"
                  /\ call.result.error.type \in PreflightErrorTypes
                  /\ call.invocations = <<>>
             ELSE IF ClEnforced /\ RedIn(call.seen)
             THEN /\ IsViolation(call.result)
                  /\ call.invocations = <<>>
             ELSE /\ Len(call.invocations) = 1
                  /\ call.result = call.inner

\* C6 witness: a guarded call ended with the TypeError of a failed fetch
C6_Witness ==
  \E c \in Callers :
    /\ calls[c].pc = "done"
    /\ calls[c].seen.net.kind = "unreachable"
    /\ calls[c].result.kind = "throw"
    /\ calls[c].result.error.type = "TypeError"
    /\ calls[c].invocations = <<>>

\* C7 as stated: in bypass mode every guarded call that ends has been
\* delegated to the underlying client.
C7_BypassAlwaysDelegates ==
  \A c \in Callers :
    (client.mode = "bypass" /\ calls[c].pc = "done") => Len(calls[c].invocations) = 1

TransportFailure(w) ==
  \/ w.net.kind \in {"unreachable", "hang"}
  \/ w.net.kind = "response" /\ ~isStatusPayload(w.net.body)

\* C8: an enforced client with a remote endpoint whose preflight met an
\* unreachable endpoint, a timeout or an invalid body does not invoke the
\* underlying method, and the call ends with an error that is no
\* GuardrailsViolationError and carries no outcome, while a red posture ends
\* it with a GuardrailsViolationError that carries one.
C8_TransportFailureFailsClosedAndDistinct ==
  \A c \in Callers :
    LET call == calls[c]
    IN  (ClEnforced /\ ClRemote /\ Preflighted(c)) =>
          /\ TransportFailure(call.seen) =>
               /\ call.pc = "done"
               /\ call.invocations = <<>>
               /\ call.result.kind = "throw"
               /\ ~IsViolation(call.result)
               /\ "outcome" \notin DOMAIN call.result.error
          /\ RedIn(call.seen) =>
               /\ IsViolation(call.result)
               /\ call.result.error.outcome.overall = "red"

\* C8 witness: the endpoint never answered and the call ended with the abort
C8_Witness ==
  \E c \in Callers :
    /\ ClEnforced /\ ClRemote
    /\ calls[c].pc = "done"
    /\ calls[c].seen.net.kind = "hang"
    /\ calls[c].result.kind = "throw"
    /\ calls[c].result.error.type = "AbortError"
    /\ calls[c].invocations = <<>>

\* an invalid body and an unreachable endpoint end enforced calls as well
C8_InvalidBodySeen ==
  \E c \in Callers :
    /\ ClEnforced /\ ClRemote /\ VersionOk(world)
    /\ calls[c].pc = "done"
    /\ calls[c].seen.net.kind = "response" /\ TransportFailure(calls[c].seen)

(***************************************************************************)
(* Claims about the audit check.                                           *)
(***************************************************************************)
AuditDone == Len(run.checks) = 7

AuditCheck == run.checks[7]

\* the JSON the check works on: stdout's if it has any, else stderr's
JsonIn(text) == IF text.kind \in {"json", "embedded"} THEN text.value ELSE JsNull

RecoveredJson ==
  IF JsonIn(fs.audit.stdout) # JsNull
  THEN JsonIn(fs.audit.stdout)
  ELSE JsonIn(fs.audit.stderr)

AuditCounts == extractAuditSummary(RecoveredJson).counts

\* the counts are what a severity summary holds: numbers from 0 up
CountsAreNaturals == \A sev \in DOMAIN AuditCounts : AuditCounts[sev] \in Nat

AuditClean ==
  /\ fs.audit.spawnError = Null
  /\ RecoveredJson # JsNull
  /\ extractAuditErrorMessage(RecoveredJson) = Null

C11_FailSeen ==
  /\ AuditDone /\ AuditClean /\ fs.audit.exitCode = <<0>>
  /\ AuditCounts.high > 0 /\ AuditCounts.moderate > 0 /\ AuditCheck.status = "fail"

C11_PassSeen ==
  /\ AuditDone /\ AuditClean /\ fs.audit.exitCode = <<0>>
  /\ AuditCheck.status = "pass"

AllZero(c) == c.critical = 0 /\ c.high = 0 /\ c.moderate = 0 /\ c.low = 0

NonZeroExit == fs.audit.exitCode # Null /\ fs.audit.exitCode # <<0>>

\* C12: when the recovered JSON counts zero vulnerabilities of every severity
\* and the subprocess exited with a non-zero code, 1 included, the audit
\* check is fail.
C12_CleanReportNonZeroExitFails ==
  (AuditDone /\ fs.audit.spawnError = Null /\ RecoveredJson # JsNull
     /\ AllZero(AuditCounts) /\ NonZeroExit) =>
    AuditCheck.status = "fail"

\* C12 witness: a clean metadata block, no error of the tool, exit code 1
C12_Witness ==
  /\ AuditDone /\ AuditClean
  /\ "metadata" \in DOMAIN RecoveredJson
  /\ AllZero(AuditCounts)
  /\ fs.audit.exitCode = <<1>>
  /\ AuditCheck.status = "fail"

NoJsonObject == RecoveredJson = JsNull \/ RecoveredJson = NotRecord

\* C13 as stated: the audit check always is a check with a status among
\* pass, warn and fail and a details string, and it is fail when the tool
\* could not be spawned or no JSON object could be recovered from its output.
C13_AlwaysACheckFailWithoutJsonObject ==
  AuditDone =>
    /\ AuditCheck.status \in {"pass", "warn", "fail"}
    /\ AuditCheck.details # Null
    /\ (fs.audit.spawnError # Null \/ NoJsonObject) => AuditCheck.status = "fail"

\* what holds of C13: a check in every case, fail when nothing parses
C13_AlwaysACheckFailWithoutJson ==
  AuditDone =>
    /\ AuditCheck.status \in {"pass", "warn", "fail"}
    /\ AuditCheck.details # Null
    /\ (fs.audit.spawnError # Null \/ RecoveredJson = JsNull) => AuditCheck.status = "fail"

\* C14 as stated: the audit invocation of every run eventually yields its
\* check, so the run does not wait for the subprocess indefinitely.
C14_AuditEventuallyYieldsCheck == <>(Len(run.checks) = 7)

\* the run that waits: the subprocess never closes and the run stays there
C14_RunWaitsForever == run.pc = "audit" /\ ~fs.auditCloses /\ ~ENABLED RunNext

CheckOrder ==
  <<"root package-lock.json exists",
    "apps/web exists",
    "apps/web/package-lock.json does not exist",
    "sha256 of root package-lock.json computed",
    "apps/web/package.json pins xrpl to an exact version",
    "root package-lock.json contains xrpl at the same version",
    "npm audit policy">>

\* the number of checks recorded when the run is at a step
RecordedAt ==
  [start |-> 0, digest |-> 3, pin |-> 4, align |-> 5, audit |-> 6,
   aggregate |-> 7, write |-> 7, exit |-> 7, failed |-> 7]

CannotCompare ==
  "apps/web/package.json xrpl version check failed, cannot compare lockfile"

\* C19: whatever the outcomes of the earlier checks, the run records the same
\* checks in the same order, one at each step, and when the manifest pin check
\* fails the alignment check is recorded as fail with the cannot-compare detail.
C19_EveryCheckRecordedInOrder ==
  run.pc # "off" =>
    /\ Len(run.checks) = RecordedAt[run.pc]
    /\ \A i \in 1..Len(run.checks) : run.checks[i].name = CheckOrder[i]
    /\ (Len(run.checks) >= 6 /\ run.checks[5].status = "fail") =>
         /\ run.checks[6].status = "fail"
         /\ run.checks[6].details = Some(CannotCompare)

\* a completed run whose first five checks all failed and which still
\* recorded the alignment and the audit check
C19_Witness ==
  /\ RunCompleted
  /\ \A i \in {1, 2, 4, 5} : statusJson.value.checks[i].status = "fail"
  /\ statusJson.value.checks[6].details = Some(CannotCompare)
  /\ statusJson.value.checks[7].status = "pass"

\* the entries of the packages map of the parsed lockfile
LockfileEntries ==
  IF /\ isRecord(run.rootLockfileJson)
     /\ run.rootLockfileJson # JsNull
     /\ "packages" \in DOMAIN run.rootLockfileJson
     /\ isRecord(run.rootLockfileJson.packages)
  THEN run.rootLockfileJson.packages.entries
  ELSE <<>>

\* the versions the packages map gives for the top-level node_modules/xrpl
TopLevelVersions ==
  {LockfileEntries[i].value.version : i \in
     {k \in 1..Len(LockfileEntries) :
        /\ LockfileEntries[k].path = <<"node_modules", "xrpl">>
        /\ "version" \in DOMAIN LockfileEntries[k].value}}

AlignmentRecorded ==
  /\ run.pc \in {"audit", "aggregate", "write", "exit", "failed"}
  /\ run.xrplVersion # Null
  /\ fs.hasRootLockfile
  /\ run.rootLockfileParseError = Null

\* C20 as stated: with a valid pin and a parseable lockfile that has a
\* top-level node_modules/xrpl entry, the alignment check passes iff that
\* entry's version equals the pinned version, whatever nested copies exist.
C20_TopLevelEntryDecides ==
  (AlignmentRecorded /\ TopLevelVersions # {}) =>
    (run.checks[6].status = "pass" <=> TopLevelVersions = {run.xrplVersion[1]})

\* the part that holds: the check passes iff the first xrpl entry of the
\* packages map in file order, nested or not, else dependencies.xrpl, has the
\* pinned version
C20_FirstEntryDecides ==
  AlignmentRecorded =>
    LET entry == findXrplLockfileEntry(run.rootLockfileJson)
    IN  run.checks[6].status = "pass"
          <=> (entry # Null /\ entry[1].version = run.xrplVersion[1])

\* a nested copy at another version listed first makes the check fail although
\* the top-level entry has the pinned version
C20_NestedCopyDecides ==
  /\ AlignmentRecorded
  /\ TopLevelVersions = {run.xrplVersion[1]}
  /\ run.checks[6].status = "fail"

\* a nested copy at the pinned version listed first makes the check pass
\* although the top-level entry has another version
C20_NestedCopyHidesMismatch ==
  /\ AlignmentRecorded
  /\ TopLevelVersions = {V2130}
  /\ run.xrplVersion = Some(V2140)
  /\ run.checks[6].status = "pass"

EndpointDone(i) == inv[i].pc = "done" /\ inv[i].request.kind = "endpoint"

NonSuccess(code) == code \notin 200..299

\* C15 as stated: the endpoint answers with a non-success status code exactly
\* when the request's mode is enforced and the snapshot's overall is red.
C15_NonSuccessIffEnforcedRed ==
  \A i \in Invokers :
    EndpointDone(i) =>
      (NonSuccess(inv[i].response.code)
         <=> (inv[i].request.mode = "enforced" /\ inv[i].response.body.overall = "red"))

\* what the endpoint does: success exactly for a green snapshot, whatever the mode
C15_SuccessIffGreen ==
  \A i \in Invokers :
    EndpointDone(i) =>
      (inv[i].response.code = 200 <=> inv[i].response.body.overall = "green")

\* a yellow snapshot answered with a non-success code
C15_YellowRefused ==
  \E i \in Invokers :
    /\ EndpointDone(i)
    /\ inv[i].response.body.overall = "yellow"
    /\ inv[i].response.code = 500

\* a red snapshot requested in bypass mode answered with a non-success code
C15_BypassRefused ==
  \E i \in Invokers :
    /\ EndpointDone(i)
    /\ inv[i].request.mode = "bypass"
    /\ inv[i].response.body.overall = "red"
    /\ inv[i].response.code = 500

\* the snapshot an invocation hands to its caller
Returned(i) ==
  IF inv[i].request.kind = "endpoint"
  THEN inv[i].response.body
  ELSE IF inv[i].response.kind = "return"
  THEN [overall |-> inv[i].response.value.overall,
        timestamp |-> inv[i].response.value.timestamp,
        lockfileSha256 |-> inv[i].response.value.lockfileSha256,
        checks |-> inv[i].response.value.checks]
  ELSE NoValue

\* C16 as stated: under every interleaving of two invocations, each one
\* returns the snapshot its own run of the script produced.
C16_ReturnsOwnSnapshot ==
  \A i \in Invokers :
    (inv[i].pc = "done" /\ inv[i].produced # NoValue) => Returned(i) = inv[i].produced

\* what holds instead: an invocation returns whatever status.json held when
\* it read it, which is the snapshot of the run that wrote last
C16_ReturnsLastWritten ==
  \A i \in Invokers :
    (inv[i].pc = "done" /\ inv[i].produced # NoValue) =>
      \E j \in Invokers : inv[j].produced # NoValue /\ Returned(i) = inv[j].produced

\* an SDK call whose own run found the repository red returns the green
\* snapshot of the other invocation, unblocked
C16_OthersSnapshotReturned ==
  \E i, j \in Invokers :
    /\ i # j
    /\ inv[i].pc = "done"
    /\ inv[i].request = [kind |-> "sdk", mode |-> "enforced", simulate |-> FALSE]
    /\ inv[i].produced # NoValue
    /\ inv[i].produced.overall = "red"
    /\ inv[j].produced # NoValue
    /\ Returned(i) = inv[j].produced
    /\ Returned(i).overall = "green"
    /\ ~inv[i].response.value.blocked

\* C18 as stated: a request carrying simulate=version_mismatch is answered
\* with a snapshot whose lockfile-alignment check is fail and whose overall
\* is red.
C18_SimulateFailsAlignment ==
  \A i \in Invokers :
    (/\ EndpointDone(i)
     /\ inv[i].request.simulate
     /\ inv[i].response.body # RouteErrorBody) =>
      /\ inv[i].response.body.checks[6].status = "fail"
      /\ inv[i].response.body.overall = "red"

\* the directive changes nothing: the request is answered with the snapshot
\* its run produced, alignment passing and overall green
C18_DirectiveIgnored ==
  \E i \in Invokers :
    /\ EndpointDone(i)
    /\ inv[i].request.simulate
    /\ inv[i].response.body = inv[i].produced
    /\ inv[i].response.body.checks[6].status = "pass"
    /\ inv[i].response.body.overall = "green"
    /\ inv[i].response.code = 200

AuditRecovered ==
  /\ AuditDone
  /\ fs.audit.spawnError = Null
  /\ RecoveredJson # JsNull
  /\ RecoveredJson # NotRecord

MetadataBlock ==
  IF isRecord(Field(RecoveredJson, "metadata"))
  THEN Field(RecoveredJson.metadata, "vulnerabilities")
  ELSE NotRecord

HasNumericMetadata ==
  isRecord(MetadataBlock) /\ DOMAIN MetadataBlock \cap DOMAIN createSeverityCounts # {}

RecordsOf(shape) ==
  IF isRecord(Field(RecoveredJson, shape)) THEN RecoveredJson[shape].entries ELSE <<>>

\* how many records of a shape have the severity, in any letter case
RecordCount(shape, sev) ==
  Cardinality({i \in 1..Len(RecordsOf(shape)) :
                 /\ isRecord(RecordsOf(shape)[i].value)
                 /\ "severity" \in DOMAIN RecordsOf(shape)[i].value
                 /\ Join(toLowerCase(RecordsOf(shape)[i].value.severity)) = sev})

ExpectedCounts ==
  [sev \in DOMAIN createSeverityCounts |->
     IF HasNumericMetadata
     THEN IF sev \in DOMAIN MetadataBlock THEN MetadataBlock[sev] ELSE 0
     ELSE RecordCount("vulnerabilities", sev) + RecordCount("advisories", sev)]

AuditNote ==
  LET parts ==
        (IF extractAuditErrorMessage(RecoveredJson) # Null
         THEN <<extractAuditErrorMessage(RecoveredJson)[1]>> ELSE <<>>)
        \o (IF NonZeroExit THEN <<exitNote(fs.audit.exitCode)>> ELSE <<>>)
  IN  IF parts = <<>> THEN Null ELSE Some(JoinWith(parts, "; "))

\* C24: the counts of the audit check are the numbers of the metadata block
\* when it has numeric counts (a severity it lacks counting 0); otherwise each
\* is the number of per-package records of that severity, in any letter case,
\* records of other severities and entries that are no records not counted.
C24_CountsFromMetadataElseRecords ==
  AuditRecovered =>
    /\ AuditCounts = ExpectedCounts
    /\ AuditCheck.details =
         Some(formatAuditDetails(ExpectedCounts,
                extractAuditSummary(RecoveredJson).vulnerablePackageNames, AuditNote))

\* C24 witness: no metadata count, an upper-case HIGH and a low record counted
C24_Witness ==
  /\ AuditRecovered
  /\ ~HasNumericMetadata
  /\ isRecord(MetadataBlock)
  /\ AuditCounts = [critical |-> 0, high |-> 1, moderate |-> 0, low |-> 1]
  /\ AuditCheck.details = Some("critical=0, high=1, moderate=0, low=1; packages=ansi-regex, glob")

\* the metadata block wins over the records, and an info record is not counted
C24_MetadataWins ==
  /\ AuditRecovered
  /\ HasNumericMetadata
  /\ Len(RecordsOf("vulnerabilities")) = 1
  /\ AuditCounts = [critical |-> 1, high |-> 0, moderate |-> 0, low |-> 0]

C24_InfoNotCounted ==
  /\ AuditRecovered
  /\ Len(RecordsOf("advisories")) = 2
  /\ Len(RecordsOf("vulnerabilities")) = 1
  /\ AuditCounts = [critical |-> 0, high |-> 0, moderate |-> 2, low |-> 0]

\* the JSON in the order of the specification: stdout as JSON, then stderr as
\* JSON, then the substring of stdout, then the substring of stderr
PriorityJson ==
  LET whole(text) == IF text.kind = "json" THEN text.value ELSE JsNull
      inside(text) == IF text.kind = "embedded" THEN text.value ELSE JsNull
  IN  IF whole(fs.audit.stdout) # JsNull THEN whole(fs.audit.stdout)
      ELSE IF whole(fs.audit.stderr) # JsNull THEN whole(fs.audit.stderr)
      ELSE IF inside(fs.audit.stdout) # JsNull THEN inside(fs.audit.stdout)
      ELSE inside(fs.audit.stderr)

\* C25 as stated: the audit check is the one built from the JSON recovered in
\* the order stdout as JSON, stderr as JSON, substring extraction last.
C25_StderrJsonBeforeSubstring ==
  (AuditDone /\ fs.audit.spawnError = Null /\ PriorityJson # JsNull) =>
    AuditCheck = runNpmAuditPolicyCheck(
                   [fs.audit EXCEPT !.stdout = [kind |-> "json", value |-> PriorityJson],
                                    !.stderr = EmptyText])

\* the order of the code: stdout as JSON, the substring of stdout, and only
\* then stderr
C25_StdoutSubstringBeforeStderr ==
  (AuditDone /\ fs.audit.spawnError = Null /\ RecoveredJson # JsNull) =>
    AuditCheck = runNpmAuditPolicyCheck(
                   [fs.audit EXCEPT !.stdout = [kind |-> "json", value |-> RecoveredJson],
                                    !.stderr = EmptyText])

\* a clean report cut out of stdout is used although stderr is a JSON report
\* with a critical vulnerability: the check passes
C25_SubstringUsedFirst ==
  /\ AuditDone
  /\ fs.audit.stdout = [kind |-> "embedded", value |-> CleanReport]
  /\ fs.audit.stderr = [kind |-> "json", value |-> CriticalReport]
  /\ fs.audit.exitCode = <<0>>
  /\ AuditCheck.status = "pass"

\* C26 as stated: every severity count of the audit summary, and so every
\* count printed in the details, is a non-negative integer.
C26_CountsAreNonNegative ==
  AuditRecovered => CountsAreNaturals

\* a count of -1 is taken from the metadata block, printed, and the check passes
C26_NegativeCountPrinted ==
  /\ AuditRecovered
  /\ AuditCounts.critical = -1
  /\ AuditCheck.details = Some("critical=-1, high=0, moderate=0, low=0; packages=none")
  /\ AuditCheck.status = "pass"

\* C27 as stated: a snapshot that is not red is returned only by an invocation
\* whose own script run completed, and it is the snapshot that run wrote.
C27_NonRedIsOwnCompletedRun ==
  \A i \in Invokers :
    (/\ inv[i].pc = "done"
     /\ Returned(i) # NoValue
     /\ Returned(i).overall \in {"green", "yellow"}) =>
      /\ inv[i].produced # NoValue
      /\ Returned(i) = inv[i].produced

\* an SDK call in enforced mode whose script failed before writing returns
\* the green snapshot an earlier invocation left on disk, after that
\* invocation had ended
C27_StaleSnapshotReturned ==
  \E i, j \in Invokers :
    /\ inv[i].pc = "done"
    /\ inv[i].request = [kind |-> "sdk", mode |-> "enforced", simulate |-> FALSE]
    /\ inv[i].produced = NoValue
    /\ inv[i].executionError # Null
    /\ inv[i].response.kind = "return"
    /\ inv[i].response.value.overall = "green"
    /\ ~inv[i].response.value.blocked
    /\ inv[j].pc = "done"
    /\ inv[j].produced # NoValue
    /\ inv[j].produced.timestamp < 2

\* the endpoint does the same and answers 200
C27_StaleSnapshotServed ==
  \E i \in Invokers :
    /\ EndpointDone(i)
    /\ inv[i].produced = NoValue
    /\ inv[i].response.code = 200
    /\ inv[i].response.body.overall = "green"

\* the snapshot has a check whose status is fail
HasFailingCheck(snapshot) ==
  \E k \in 1..Len(snapshot.checks) : snapshot.checks[k].status = "fail"

\* C29 as stated: an enforced client never invokes the underlying method for
\* a call whose preflight obtained a snapshot with a failing check, whatever
\* the snapshot's overall says.
C29_FailingCheckNeverDelegated ==
  \A c \in Callers :
    (/\ ClEnforced
     /\ calls[c].method \in GuardedMethods
     /\ Preflighted(c)
     /\ HasOutcome(calls[c].seen)
     /\ HasFailingCheck(PostureIn(calls[c].seen))) =>
      calls[c].invocations = <<>>

\* what holds: the decision follows the overall field alone
C29_OverallAloneDecides ==
  \A c \in Callers :
    (/\ ClEnforced
     /\ calls[c].method \in GuardedMethods
     /\ Preflighted(c)
     /\ HasOutcome(calls[c].seen)) =>
      (calls[c].invocations = <<>> <=> PostureIn(calls[c].seen).overall = "red")

\* an enforced submit went through to the underlying client although the
\* snapshot lists a failing check under overall green
C29_DelegatedDespiteFailingCheck ==
  \E c \in Callers :
    /\ ClEnforced
    /\ calls[c].pc = "done"
    /\ calls[c].method = "submit"
    /\ PostureIn(calls[c].seen) = InconsistentBody
    /\ calls[c].invocations = <<[method |-> "submit", args |-> Args[c]]>>
    /\ calls[c].result.kind = "return"

\* the mode a call is to be decided with: the one its overrides name, else
\* the one stored on the client
EffectiveMode(c) ==
  LET overrides == calls[c].overrides
  IN  IF "mode" \in DOMAIN overrides /\ overrides.mode.type = "string"
      THEN IF overrides.mode.chars = Chars("bypass") THEN "bypass" ELSE "enforced"
      ELSE client.mode

SawRed(c) == PostureIn(calls[c].seen).overall = "red"

DecidedWithOwnMode(c) ==
  LET call == calls[c]
      blocks == EffectiveMode(c) = "enforced" /\ SawRed(c)
  IN  CASE call.method = "ensureGuardrails" ->
             /\ IsViolation(call.result) <=> blocks
             /\ ~IsViolation(call.result) =>
                  (call.result.kind = "return" /\ call.result.value.mode = EffectiveMode(c))
        [] call.method = "preflight" ->
             /\ call.result.kind = "return"
             /\ call.result.value.mode = EffectiveMode(c)
             /\ call.result.value.blocked <=> blocks
        [] OTHER ->
             /\ call.overrides = NoOverrides
             /\ call.invocations = <<>> <=> blocks

\* C22: a call of ensureGuardrails or preflight with overrides leaves the
\* client's mode and guardrails options as they were, and every call, with or
\* without overrides and however the calls interleave, is decided with its own
\* effective mode.
C22_OverridesAffectOnlyTheirCall ==
  /\ [](\A c \in Callers : calls[c].pc = "done" => DecidedWithOwnMode(c))
  /\ [][client' = client]_vars

\* C22 witness: under a red posture the enforced client's preflight with a
\* bypass override is not blocked while a guarded submit of the other caller
\* is refused
C22_Witness ==
  /\ client.mode = "enforced"
  /\ client.guardrails.mode = StrMode(Chars("enforced"))
  /\ calls["a"].pc = "done"
  /\ calls["a"].method = "preflight"
  /\ calls["a"].overrides = [mode |-> StrMode(Chars("bypass"))]
  /\ SawRed("a")
  /\ ~calls["a"].result.value.blocked
  /\ calls["b"].pc = "done"
  /\ calls["b"].method = "submit"
  /\ SawRed("b")
  /\ IsViolation(calls["b"].result)

(***************************************************************************)
(* Claims about the normalisation of a mode.                               *)
(***************************************************************************)
\* the value is a string that says bypass, in capitals or not, with nothing
\* but spaces around it
SuppliesBypass(value) ==
  /\ value.type = "string"
  /\ \E i \in 1..Len(value.chars) :
       /\ i + 5 <= Len(value.chars)
       /\ \A k \in 0..5 :
            value.chars[i + k] \in {<<"b","y","p","a","s","s">>[k + 1],
                                    <<"B","Y","P","A","S","S">>[k + 1]}
       /\ \A k \in 1..Len(value.chars) :
            (k < i \/ k > i + 5) => value.chars[k] = " "

\* C30: a normaliser returns bypass only for a value that says bypass (the
\* web helpers: only for exactly "bypass", read in a browser); every other
\* value, missing, not a string or unrecognized, gives enforced; and
\* normalising a mode a normaliser returned gives the same mode
C30_BypassOnlyWhenSupplied ==
  /\ \A r \in {norm.sdk, norm.web, norm.stored, norm.initial,
               norm.sdkAgain, norm.webAgain} :
       r \in {Null, Some("enforced"), Some("bypass")}
  /\ norm.sdk = Some("bypass") => SuppliesBypass(norm.given)
  /\ norm.web = Some("bypass") => norm.given = StrMode(<<"b","y","p","a","s","s">>)
  /\ \A r \in {norm.stored, norm.initial} :
       r = Some("bypass") =>
         norm.hasWindow /\ norm.given = StrMode(<<"b","y","p","a","s","s">>)
  /\ norm.sdkAgain # Null => norm.sdkAgain = norm.sdk
  /\ norm.webAgain # Null => norm.webAgain = norm.web

C30_Witness ==
  /\ norm.given = StrMode(<<" ","B","y","p","a","s","s"," ">>)
  /\ norm.sdk = Some("bypass")
  /\ norm.sdkAgain = Some("bypass")
  /\ norm.web = Some("enforced")
  /\ norm.webAgain = Some("enforced")
  /\ norm.stored = Some("enforced")
  /\ norm.initial = Some("enforced")

(***************************************************************************)
(* Claims about the mode toggle and the transfer page.                     *)
(***************************************************************************)
\* C21: in a production build no step takes the mode of a page from
\* enforced to bypass
C21_NoBypassInProduction ==
  [][processEnv.NODE_ENV = "production" =>
       /\ ~(home.guardrailsEnabled /\ ~home'.guardrailsEnabled)
       /\ ~(demo.guardrailsMode = "enforced" /\ demo'.guardrailsMode = "bypass")
       /\ ~(transfer.mode = "enforced" /\ transfer'.mode = "bypass")]_vars

\* what the code keeps: the toggle of the home page, which is rendered
\* without the allowed property, changes nothing unless the build allows it
C21_HomeToggleObeysBuild ==
  [][home' # home => isBypassAllowed(processEnv)]_vars

\* a production build where the demo page and the transfer page, which
\* mount with the same stored mode, have been toggled apart
C21_ToggledInProduction ==
  /\ processEnv.NODE_ENV = "production"
  /\ demo.guardrailsMode # transfer.mode
  /\ home.guardrailsEnabled

\* the body of a response says green or yellow, and /status.json does not
\* say red either
SaysNotRed(p) ==
  /\ p.response.kind = "http"
  /\ transferIsStatusPayload(p.response.body)
  /\ p.response.body.overall \in {"green", "yellow"}
  /\ p.read.kind = "json" => p.read.value.overall \in {"green", "yellow"}

\* C23: a preflight of the transfer page whose response body says green or
\* yellow is not treated as red and does not block, whatever its status code
C23_BodyDecidesNotStatusCode ==
  (transfer.lastPreflight # NoValue /\ SaysNotRed(transfer.lastPreflight)) =>
    /\ transfer.lastPreflight.overall # "red"
    /\ ~transfer.lastPreflight.blocked

\* what the code keeps: a response that is not ok is red whatever it says
C23_NotOkIsRed ==
  (/\ transfer.lastPreflight # NoValue
   /\ transfer.lastPreflight.response.kind = "http"
   /\ ~ResponseOk(transfer.lastPreflight.response)) =>
    transfer.lastPreflight.overall = "red"

\* the endpoint's answer for a yellow snapshot blocks an enforced transfer
C23_YellowBlocksEnforced ==
  /\ transfer.lastPreflight # NoValue
  /\ transfer.lastPreflight.response =
       routeResponse([kind |-> "json", value |-> YellowBody])
  /\ transfer.lastPreflight.read = [kind |-> "json", value |-> YellowBody]
  /\ transfer.lastPreflight.overall = "red"
  /\ transfer.lastPreflight.blocked
  /\ transfer.mode = "enforced"
  /\ transfer.sendLocked
  /\ transfer.sent = <<>>

\* C28: no request goes to /api/transfer while the selected mode is enforced
\* and the preflight before the request resolved red
C28_NoSendWhileEnforcedAndRed ==
  \A i \in DOMAIN transfer.sent :
    ~(transfer.sent[i].selected = "enforced" /\ transfer.sent[i].preflight = "red")

\* what the code keeps: the mode the handler captured at the click decides
C28_CapturedModeDecides ==
  \A i \in DOMAIN transfer.sent :
    ~(transfer.sent[i].mode = "enforced" /\ transfer.sent[i].preflight = "red")

\* a request sent after a red preflight with the page switched to enforced
\* while the preflight was in flight
C28_SentAfterSwitchToEnforced ==
  \E i \in DOMAIN transfer.sent :
    /\ transfer.sent[i].selected = "enforced"
    /\ transfer.sent[i].mode = "bypass"
    /\ transfer.sent[i].preflight = "red"
====
